---- MODULE Spec2Model ----
(***************************************************************************)
(* A model of package sizeflag of creachadair/goflags                      *)
(* (src/sizeflag/flag.go): the size-notation parser, the canonical         *)
(* unparser and the flag.Value holders Value2 / Value10.                   *)
(*                                                                         *)
(* Go's int is 64 bits wide on every platform the package compiles for     *)
(* (the constants ti, pi, ei do not fit 32 bits), and the parser computes  *)
(* in float64.  TLC's integers are 32 bits wide, so 64-bit integers and    *)
(* float64 significands are carried as little-endian sequences of 16-bit   *)
(* limbs, and strings as sequences of one-character strings.               *)
(***************************************************************************)
EXTENDS Integers, Sequences, FiniteSets, TLC

(***************************************************************************)
(* Natural numbers of arbitrary size: little-endian limbs, no leading zero *)
(* limb, zero is the empty sequence.                                       *)
(***************************************************************************)
LimbBase == 65536

Max(a, b) == IF a >= b THEN a ELSE b

Min(a, b) == IF a <= b THEN a ELSE b

MaxOf(S) == CHOOSE x \in S : \A y \in S : y <= x

Limb(a, i) == IF i <= Len(a) THEN a[i] ELSE 0

\* a without its leading zero limbs
BNorm(a) ==
    LET nz == {i \in 1..Len(a) : a[i] # 0}
    IN  IF nz = {} THEN <<>> ELSE SubSeq(a, 1, MaxOf(nz))

BFromInt(n) ==
    IF n = 0 THEN <<>>
    ELSE IF n < LimbBase THEN <<n>>
    ELSE <<n % LimbBase, n \div LimbBase>>

BCmp(a, b) ==
    IF Len(a) < Len(b) THEN -1
    ELSE IF Len(a) > Len(b) THEN 1
    ELSE LET diff == {i \in 1..Len(a) : a[i] # b[i]}
         IN  IF diff = {} THEN 0
             ELSE IF a[MaxOf(diff)] < b[MaxOf(diff)] THEN -1
             ELSE 1

\* the carry into limb i of a + b: a lower limb generates it and every limb
\* between passes it on
Carry(a, b, i) ==
    \E j \in 1..(i - 1) :
        /\ Limb(a, j) + Limb(b, j) >= LimbBase
        /\ \A k \in (j + 1)..(i - 1) : Limb(a, k) + Limb(b, k) = LimbBase - 1

BAdd(a, b) ==
    IF a = <<>> THEN b
    ELSE IF b = <<>> THEN a
    ELSE BNorm([i \in 1..(Max(Len(a), Len(b)) + 1) |->
                  (Limb(a, i) + Limb(b, i) + (IF Carry(a, b, i) THEN 1 ELSE 0))
                      % LimbBase])

\* the borrow from limb i of a - b
Borrow(a, b, i) ==
    \E j \in 1..(i - 1) :
        /\ a[j] < Limb(b, j)
        /\ \A k \in (j + 1)..(i - 1) : a[k] = Limb(b, k)

\* a - b for a >= b
BSub(a, b) ==
    IF b = <<>> THEN a
    ELSE IF a = b THEN <<>>
    ELSE BNorm([i \in 1..Len(a) |->
                  (a[i] - Limb(b, i) - (IF Borrow(a, b, i) THEN 1 ELSE 0) + LimbBase)
                      % LimbBase])

\* a * k for a small k (0 <= k <= 2^15, so that a limb product fits 32 bits):
\* the low halves of the limb products plus their high halves one limb up
BMulSmall(a, k) ==
    IF a = <<>> \/ k = 0 THEN <<>>
    ELSE IF k = 1 THEN a
    ELSE BAdd(BNorm([i \in 1..Len(a) |-> (a[i] * k) % LimbBase]),
              BNorm([i \in 1..(Len(a) + 1) |->
                       IF i = 1 THEN 0 ELSE (a[i - 1] * k) \div LimbBase]))

\* limbs hi down to lo of a divided by d, r being the remainder that comes in
\* from the limbs above: the quotient limbs and the remainder that goes out
RECURSIVE BDivRange(_, _, _, _, _)
BDivRange(a, d, hi, lo, r) ==
    IF hi = lo
    THEN [q |-> <<(r * LimbBase + a[hi]) \div d>>, r |-> (r * LimbBase + a[hi]) % d]
    ELSE LET mid == (hi + lo) \div 2
             up  == BDivRange(a, d, hi, mid + 1, r)
             dn  == BDivRange(a, d, mid, lo, up.r)
         IN  [q |-> dn.q \o up.q, r |-> dn.r]

\* quotient and remainder of a by a small d (1 <= d <= 2^15)
BDivSmall(a, d) ==
    IF a = <<>> THEN [q |-> <<>>, r |-> 0]
    ELSE LET qr == BDivRange(a, d, Len(a), 1, 0)
         IN  [q |-> BNorm(qr.q), r |-> qr.r]

RECURSIVE BMulPow(_, _, _)
BMulPow(a, s, r) ==
    IF r = 0 \/ a = <<>> THEN a ELSE BMulPow(BMulSmall(a, s), s, r - 1)

\* a * 2^k: whole limbs are shifted in, the rest is one small product
BShl(a, k) ==
    IF a = <<>> THEN a
    ELSE [i \in 1..(k \div 16) |-> 0] \o BMulSmall(a, 2^(k % 16))

\* floor(a / 2^k), with sticky = TRUE iff something was cut off: whole limbs
\* are dropped, the rest is one small division
BShr(a, k, sticky) ==
    IF a = <<>> \/ k = 0 THEN [q |-> a, sticky |-> sticky]
    ELSE LET w   == Min(k \div 16, Len(a))
             one == BDivSmall(SubSeq(a, w + 1, Len(a)), 2^(k % 16))
         IN  [q |-> one.q,
              sticky |-> sticky \/ one.r # 0 \/ \E i \in 1..w : a[i] # 0]

\* floor(a / s^r), with sticky = TRUE iff something was cut off (s <= 2^15)
RECURSIVE BDivPow(_, _, _)
BDivPow(a, s, r) ==
    IF r = 0 \/ a = <<>> THEN [q |-> a, sticky |-> FALSE]
    ELSE LET one  == BDivSmall(a, s)
             rest == BDivPow(one.q, s, r - 1)
         IN  [q |-> rest.q, sticky |-> rest.sticky \/ one.r # 0]

\* the number of bits of 0 <= n < 2^16
IntBitLen(n) ==
    IF n = 0 THEN 0 ELSE CHOOSE k \in 1..16 : 2^(k - 1) <= n /\ n < 2^k

BBitLen(a) == IF a = <<>> THEN 0 ELSE 16 * (Len(a) - 1) + IntBitLen(a[Len(a)])

BIsOdd(a) == a # <<>> /\ a[1] % 2 = 1

\* a * 65536
BShiftLimb(a) == IF a = <<>> THEN <<>> ELSE <<0>> \o a

\* a * b: one limb of b at a time, each limb as two 8-bit halves
RECURSIVE BMulFromLimb(_, _, _)
BMulFromLimb(a, b, i) ==
    IF i > Len(b) THEN <<>>
    ELSE BAdd(BAdd(BShl(BMulSmall(a, b[i] \div 256), 8), BMulSmall(a, b[i] % 256)),
              BShiftLimb(BMulFromLimb(a, b, i + 1)))

BMul(a, b) ==
    IF a = <<>> \/ b = <<>> THEN <<>> ELSE BMulFromLimb(a, b, 1)

\* quotient bits hi down to lo and remainder of rem by b > 0
\* (rem < b * 2^(hi+1)): binary long division, one quotient bit at a time
RECURSIVE BDivModBits(_, _, _, _)
BDivModBits(rem, b, hi, lo) ==
    IF hi = lo
    THEN (IF BCmp(rem, BShl(b, hi)) >= 0
          THEN [q |-> BShl(<<1>>, hi), r |-> BSub(rem, BShl(b, hi))]
          ELSE [q |-> <<>>, r |-> rem])
    ELSE LET mid == (hi + lo) \div 2
             up  == BDivModBits(rem, b, hi, mid + 1)
             dn  == BDivModBits(up.r, b, mid, lo)
         IN  [q |-> BAdd(up.q, dn.q), r |-> dn.r]

BDivMod(a, b) ==
    IF BCmp(a, b) < 0 THEN [q |-> <<>>, r |-> a]
    ELSE BDivModBits(a, b, BBitLen(a) - BBitLen(b), 0)

(***************************************************************************)
(* Go int (64 bits, two's complement) as a natural number below 2^64:      *)
(* values of 2^63 and above stand for the negative numbers.                *)
(***************************************************************************)
Two63 == <<0, 0, 0, 32768>>

Two64 == <<0, 0, 0, 0, 1>>

Wrap64(a) == BNorm(SubSeq(a, 1, Min(Len(a), 4)))

IsNeg64(a) == BCmp(a, Two63) >= 0

\* -a in 64-bit two's complement
Neg64(a) == IF a = <<>> THEN <<>> ELSE Wrap64(BSub(Two64, a))

\* |a| of a negative a
Abs64(a) == BSub(Two64, a)

\* a + b as Go computes it on int: the sum wraps silently
Add64(a, b) == Wrap64(BAdd(a, b))

\* a * b as Go computes it on int
Mul64(a, b) == Wrap64(BMul(a, b))

\* a / b and a % b for b > 0 as Go computes them on int: the quotient is
\* truncated toward zero and the remainder takes the sign of a
Quo64(a, b) ==
    IF IsNeg64(a) THEN Neg64(BDivMod(Abs64(a), b).q) ELSE BDivMod(a, b).q

Rem64(a, b) ==
    IF IsNeg64(a) THEN Neg64(BDivMod(Abs64(a), b).r) ELSE BDivMod(a, b).r

\* a > 0 on int
IsPos64(a) == a # <<>> /\ ~IsNeg64(a)

(***************************************************************************)
(* float64: a value m * 2^e with a significand m below 2^53.  Subnormals   *)
(* and infinities are out of reach of the parser's inputs (a number is a   *)
(* short digit string, a multiplier is at most 2^60).                      *)
(***************************************************************************)
\* half.q, or the next number up when the bit cut off (half.r) and what is
\* below it (sticky) are past the middle, or in the middle and half.q is odd
RoundUp(half, sticky) ==
    IF half.r = 1 /\ (sticky \/ BIsOdd(half.q)) THEN BAdd(half.q, <<1>>) ELSE half.q

\* round a 54-bit quotient q (with sticky bit) to 53 bits, ties to even
RoundHalfEven(q, sticky) == RoundUp(BDivSmall(q, 2), sticky)

\* the float64 sig * 2^expo of a rounded significand (rounding up may have
\* carried into a 54th bit)
Normal(sig, expo) ==
    IF BBitLen(sig) = 54
    THEN [m |-> BDivSmall(sig, 2).q, e |-> expo + 1]
    ELSE [m |-> sig, e |-> expo]

\* the float64 nearest to (a + x) * 2^e0 for a natural number a of any size
\* and 0 <= x < 1, x being positive iff sticky
RoundBits(a, e0, sticky) ==
    IF BBitLen(a) <= 53 THEN [m |-> a, e |-> e0]
    ELSE Normal(RoundHalfEven(BShr(a, BBitLen(a) - 54, sticky).q,
                              BShr(a, BBitLen(a) - 54, sticky).sticky),
                e0 + BBitLen(a) - 53)

\* the float64 nearest to a * 2^e0
RoundToFloat(a, e0) == RoundBits(a, e0, FALSE)

\* by how many bits n is scaled up so that its quotient by 10^f has 55 bits
\* or more (10^f < 2^(4f))
Shift(n, f) == Max(0, 55 + 4 * f - BBitLen(n))

\* the float64 nearest to a quotient scaled by 2^sh
Quotient(cut, sh) == RoundBits(cut.q, 0 - sh, cut.sticky)

\* the float64 nearest to n / 10^f  (strconv.ParseFloat rounds correctly)
NearestFloat(n, f) ==
    IF n = <<>> THEN [m |-> <<>>, e |-> 0]
    ELSE IF f = 0 THEN RoundToFloat(n, 0)
    ELSE Quotient(BDivPow(BShl(n, Shift(n, f)), 10, f), Shift(n, f))

\* x * mul in float64, for a multiplier that float64 holds exactly (every
\* entry of units2 and units10 does: 10^18 = 5^18 * 2^18 and 5^18 < 2^53)
FloatMul(x, mul) == RoundToFloat(BMul(x.m, mul), x.e)

\* the integer part of x (Go's int(v) truncates toward zero)
FloatTrunc(x) ==
    IF x.e >= 0 THEN BShl(x.m, x.e) ELSE BShr(x.m, 0 - x.e, FALSE).q

(***************************************************************************)
(* Strings are sequences of one-character strings.                         *)
(***************************************************************************)
DigitChars == <<"0", "1", "2", "3", "4", "5", "6", "7", "8", "9">>

IsDigit(c) == \E i \in 1..10 : DigitChars[i] = c

DigitVal(c) == (CHOOSE i \in 1..10 : DigitChars[i] = c) - 1

\* unicode.IsSpace on the characters the model's inputs use
IsSpace(c) == c \in {" ", "\t", "\n", "\r"}

LowerOf == [c \in {"B", "E", "G", "K", "M", "P", "Q", "T"} |->
              CASE c = "B" -> "b" [] c = "E" -> "e" [] c = "G" -> "g"
                [] c = "K" -> "k" [] c = "M" -> "m" [] c = "P" -> "p"
                [] c = "Q" -> "q" [] c = "T" -> "t"]

\* strings.ToLower on one character
ToLower(c) == IF c \in DOMAIN LowerOf THEN LowerOf[c] ELSE c

RECURSIVE TrimLeft(_)
TrimLeft(s) ==
    IF s # <<>> /\ IsSpace(s[1]) THEN TrimLeft(Tail(s)) ELSE s

RECURSIVE TrimRight(_)
TrimRight(s) ==
    IF s # <<>> /\ IsSpace(s[Len(s)]) THEN TrimRight(SubSeq(s, 1, Len(s) - 1))
    ELSE s

\* a TrimSpace that forgets the trailing whitespace
TrimSpaceLeftOnly(s) == TrimLeft(s)

\* strings.TrimSpace
TrimSpace(s) == TrimRight(TrimLeft(s))

\* the number of digits of s from position i on
DigitRun(s, i) ==
    LET stops == {j \in i..Len(s) : ~IsDigit(s[j])}
    IN  IF i > Len(s) THEN 0
        ELSE IF stops = {} THEN Len(s) - i + 1
        ELSE (CHOOSE j \in stops : \A k \in stops : j <= k) - i

\* the value of a string of at most four digits
RECURSIVE DigitsInt(_)
DigitsInt(ds) ==
    IF ds = <<>> THEN 0
    ELSE 10 * DigitsInt(SubSeq(ds, 1, Len(ds) - 1)) + DigitVal(ds[Len(ds)])

\* the value of a digit string, four digits at a time
RECURSIVE DigitsValue(_)
DigitsValue(ds) ==
    IF Len(ds) <= 4 THEN BFromInt(DigitsInt(ds))
    ELSE BAdd(BMulSmall(DigitsValue(SubSeq(ds, 1, Len(ds) - 4)), 10000),
              BFromInt(DigitsInt(SubSeq(ds, Len(ds) - 3, Len(ds)))))

\* the decimal digits of 0 <= n < 10000, without leading zeros
RECURSIVE FormatSmall(_)
FormatSmall(n) ==
    IF n = 0 THEN <<>>
    ELSE FormatSmall(n \div 10) \o <<DigitChars[(n % 10) + 1]>>

\* the same, padded with zeros to four digits
FormatFour(n) ==
    <<DigitChars[(n \div 1000) + 1], DigitChars[((n \div 100) % 10) + 1],
      DigitChars[((n \div 10) % 10) + 1], DigitChars[(n % 10) + 1]>>

\* the decimal digits of a natural number ("%d" of a non-negative int), four
\* digits at a time
RECURSIVE FormatNat(_)
FormatNat(a) ==
    IF a = <<>> THEN <<>>
    ELSE LET qr == BDivSmall(a, 10000)
         IN  IF qr.q = <<>> THEN FormatSmall(qr.r)
             ELSE FormatNat(qr.q) \o FormatFour(qr.r)

\* fmt.Sprintf("%d", n) for an int n
FormatInt(n) ==
    IF n = <<>> THEN <<"0">>
    ELSE IF IsNeg64(n) THEN <<"-">> \o FormatNat(Abs64(n))
    ELSE FormatNat(n)

(***************************************************************************)
(* The grammar constants and unit tables.                                  *)
(***************************************************************************)
\* the unit class [bkmgtp] of sizeRE, matched without regard to case
UnitClass == {"b", "k", "m", "g", "t", "p"}

\* sizeRE.FindStringSubmatch(s) for ^(?i)([0-9]+(?:\.[0-9]+)?)([bkmgtp]):
\* the longest digit run, a fraction when a point and a digit follow, then
\* one letter of the unit class; <<>> stands for nil (no match)
sizeRE(s) ==
    LET ip     == DigitRun(s, 1)
        fp     == IF ip > 0 /\ ip + 1 <= Len(s) /\ s[ip + 1] = "."
                  THEN DigitRun(s, ip + 2) ELSE 0
        numLen == IF fp > 0 THEN ip + 1 + fp ELSE ip
    IN  IF ip > 0 /\ numLen + 1 <= Len(s) /\ ToLower(s[numLen + 1]) \in UnitClass
        THEN <<SubSeq(s, 1, numLen + 1), SubSeq(s, 1, numLen), s[numLen + 1]>>
        ELSE <<>>

kd == <<1000>>

md == BMul(kd, kd)

gd == BMul(md, kd)

td == BMul(gd, kd)

pd == BMul(td, kd)

ed == BMul(pd, kd)

ki == <<1024>>

mi == BMul(ki, ki)

gi == BMul(mi, ki)

ti == BMul(gi, ki)

pi == BMul(ti, ki)

ei == BMul(pi, ki)

UnitLetters == {"k", "m", "g", "t", "p", "e"}

units2 == [u \in UnitLetters |->
             CASE u = "k" -> ki [] u = "m" -> mi [] u = "g" -> gi
               [] u = "t" -> ti [] u = "p" -> pi [] u = "e" -> ei]

units10 == [u \in UnitLetters |->
              CASE u = "k" -> kd [] u = "m" -> md [] u = "g" -> gd
                [] u = "t" -> td [] u = "p" -> pd [] u = "e" -> ed]

mult2 == <<ei, pi, ti, gi, mi, ki>>

mult10 == <<ed, pd, td, gd, md, kd>>

\* labels[1] is the sentinel (labels[0] in the source)
labels == <<<<>>, <<"E">>, <<"P">>, <<"T">>, <<"G">>, <<"M">>, <<"K">>>>

(***************************************************************************)
(* parse                                                                   *)
(***************************************************************************)
\* strconv.ParseFloat(num, 64) for num = digits ['.' digits]: it cannot fail
\* on such a string short of 309 digits, and rounds to the nearest float64
ParseFloat(num) ==
    LET ip == DigitRun(num, 1)
        fp == IF ip < Len(num) THEN Len(num) - ip - 1 ELSE 0
        ds == SubSeq(num, 1, ip) \o SubSeq(num, ip + 2, Len(num))
    IN  [v |-> NearestFloat(DigitsValue(ds), fp), err |-> "nil"]

\* a conversion that rounds a fraction up instead of cutting it off
FloatToIntRoundUp(v) ==
    IF v.e >= 0 THEN BShl(v.m, v.e)
    ELSE IF BShr(v.m, 0 - v.e, FALSE).sticky
    THEN BAdd(BShr(v.m, 0 - v.e, FALSE).q, <<1>>)
    ELSE BShr(v.m, 0 - v.e, FALSE).q

\* int(v) for a float64 v >= 0 below 2^63
FloatToInt(v) == FloatTrunc(v)

MaxInt64 == BSub(Two63, <<1>>)

\* strconv.Atoi(s) for a non-empty s: an optional sign, then digits only;
\* a value outside int is a range error
Atoi(s) ==
    LET signed == s[1] = "-" \/ s[1] = "+"
        body   == IF signed THEN Tail(s) ELSE s
        isNum  == body # <<>> /\ DigitRun(body, 1) = Len(body)
        mag    == DigitsValue(body)
    IN  IF ~isNum THEN [v |-> <<>>, err |-> "syntax"]
        ELSE IF s[1] = "-"
        THEN (IF BCmp(mag, Two63) > 0 THEN [v |-> <<>>, err |-> "range"]
              ELSE [v |-> Neg64(mag), err |-> "nil"])
        ELSE (IF BCmp(mag, MaxInt64) > 0 THEN [v |-> <<>>, err |-> "range"]
              ELSE [v |-> mag, err |-> "nil"])

\* the state of a call of parse: the rest of the text, the running total,
\* the flag ok, where the call stands (in the term loop, after it, returned),
\* the returned pair, the number of terms the loop has consumed and the
\* number of times its body has been entered
ParseStart(s) ==
    [s |-> s, size |-> <<>>, ok |-> FALSE, pc |-> "loop",
     ret |-> <<>>, err |-> "nil", terms |-> 0, iters |-> 0]

\* a term that is assigned to the total instead of added to it
AssignTerm(st, unit, s, m, pf) ==
    IF pf.err # "nil"
    THEN [st EXCEPT !.s = s, !.pc = "ret", !.ret = <<>>, !.err = "invalid size"]
    ELSE IF ToLower(m[3]) \in DOMAIN unit
    THEN [st EXCEPT
            !.s = SubSeq(s, Len(m[1]) + 1, Len(s)),
            !.size = FloatToInt(FloatMul(pf.v, unit[ToLower(m[3])])),
            !.ok = TRUE,
            !.terms = st.terms + 1]
    ELSE [st EXCEPT !.s = s, !.pc = "ret", !.ret = st.size, !.err = "invalid unit"]

\* a loop body that returns 0 with the invalid unit error
AddTermNoPartial(st, unit, s, m, pf) ==
    IF pf.err # "nil"
    THEN [st EXCEPT !.s = s, !.pc = "ret", !.ret = <<>>, !.err = "invalid size"]
    ELSE IF ToLower(m[3]) \in DOMAIN unit
    THEN [st EXCEPT
            !.s = SubSeq(s, Len(m[1]) + 1, Len(s)),
            !.size = Add64(st.size, FloatToInt(FloatMul(pf.v, unit[ToLower(m[3])]))),
            !.ok = TRUE,
            !.terms = st.terms + 1]
    ELSE [st EXCEPT !.s = s, !.pc = "ret", !.ret = <<>>, !.err = "invalid unit"]

\* the loop body after a match m in s, pf being what ParseFloat returned:
\* the term is scaled, truncated and added to the total
AddTerm(st, unit, s, m, pf) ==
    IF pf.err # "nil"
    THEN [st EXCEPT !.s = s, !.pc = "ret", !.ret = <<>>, !.err = "invalid size"]
    ELSE IF ToLower(m[3]) \in DOMAIN unit
    THEN [st EXCEPT
            !.s = SubSeq(s, Len(m[1]) + 1, Len(s)),
            !.size = Add64(st.size, FloatToInt(FloatMul(pf.v, unit[ToLower(m[3])]))),
            !.ok = TRUE,
            !.terms = st.terms + 1]
    ELSE [st EXCEPT !.s = s, !.pc = "ret", !.ret = st.size, !.err = "invalid unit"]

\* an iteration that takes the number of a term from the text and leaves
\* its letter
LoopIterKeepLetter(st, unit) ==
    LET s == TrimSpace(st.s)
        m == sizeRE(s)
    IN  IF m = <<>> THEN [st EXCEPT !.s = s, !.pc = "tail", !.iters = st.iters + 1]
        ELSE AddTerm([st EXCEPT !.iters = st.iters + 1, !.s = <<m[3]>> \o s],
                     unit, <<m[3]>> \o s, m, ParseFloat(m[2]))

\* one iteration of the term loop
LoopIter(st, unit) ==
    LET s == TrimSpace(st.s)
        m == sizeRE(s)
    IN  IF m = <<>> THEN [st EXCEPT !.s = s, !.pc = "tail", !.iters = st.iters + 1]
        ELSE AddTerm([st EXCEPT !.iters = st.iters + 1], unit, s, m, ParseFloat(m[2]))

\* the code after the term loop
AfterLoop(st) ==
    LET s == TrimSpace(st.s)
    IN  IF s # <<>>
        THEN LET a == Atoi(s)
             IN  IF a.err # "nil"
                 THEN [st EXCEPT !.s = s, !.pc = "ret",
                                 !.ret = <<>>, !.err = "invalid size"]
                 ELSE [st EXCEPT !.s = s, !.pc = "ret",
                                 !.size = Add64(st.size, a.v),
                                 !.ret = Add64(st.size, a.v)]
        ELSE IF ~st.ok
        THEN [st EXCEPT !.s = s, !.pc = "ret", !.ret = <<>>, !.err = "invalid size"]
        ELSE [st EXCEPT !.s = s, !.pc = "ret", !.ret = st.size]

ParseStep(st, unit) ==
    IF st.pc = "loop" THEN LoopIter(st, unit) ELSE AfterLoop(st)

RECURSIVE ParseRun(_, _)
ParseRun(st, unit) ==
    IF st.pc = "ret" THEN st ELSE ParseRun(ParseStep(st, unit), unit)

\* the pair a call returns
Returned(st) == [size |-> st.ret, err |-> st.err]

\* parse(s, unit): the returned pair
parse(s, unit) == Returned(ParseRun(ParseStart(s), unit))

(***************************************************************************)
(* unparse                                                                 *)
(***************************************************************************)
\* an add that never combines a term with the one before it
addNoFold(terms, pow, n, u, prev, v) == Append(terms, [n |-> n, u |-> u])

\* an add that combines with the term one place higher whatever remains
addAnyRemainder(terms, pow, n, u, prev, v) ==
    LET p == Len(terms)
    IN  IF p >= 1 /\ terms[p].u = prev
        THEN [terms EXCEPT ![p] = [n |-> Add64(Mul64(terms[p].n, BFromInt(pow)), n),
                                   u |-> u]]
        ELSE Append(terms, [n |-> n, u |-> u])

\* the closure add of unparse; the value v it returns is its last argument
add(terms, pow, n, u, prev, v) ==
    LET p == Len(terms)
    IN  IF p >= 1 /\ v = <<>> /\ terms[p].u = prev
        THEN [terms EXCEPT ![p] = [n |-> Add64(Mul64(terms[p].n, BFromInt(pow)), n),
                                   u |-> u]]
        ELSE Append(terms, [n |-> n, u |-> u])

\* the scan over mult, from entry i on
RECURSIVE Scan(_, _, _, _, _)
Scan(z, terms, pow, mult, i) ==
    IF i > Len(mult) THEN [z |-> z, terms |-> terms]
    ELSE LET n == Quo64(z, mult[i])
         IN  IF IsPos64(n)
             THEN Scan(Rem64(z, mult[i]),
                       add(terms, pow, n, labels[i + 1], labels[i], Rem64(z, mult[i])),
                       pow, mult, i + 1)
             ELSE Scan(z, terms, pow, mult, i + 1)

\* strings.Join(parts, " ")
RECURSIVE Join(_)
Join(parts) ==
    IF parts = <<>> THEN <<>>
    ELSE IF Len(parts) = 1 THEN parts[1]
    ELSE parts[1] \o <<" ">> \o Join(Tail(parts))

\* the terms of the scan alone, what is left below K not written
unparseTermsNoRest(v, pow, mult) == Scan(v, <<>>, pow, mult, 1).terms

\* the terms unparse collects for v
unparseTerms(v, pow, mult) ==
    LET sc == Scan(v, <<>>, pow, mult, 1)
    IN  IF sc.terms = <<>> \/ IsPos64(sc.z)
        THEN add(sc.terms, pow, sc.z, <<>>, <<"K">>, <<>>)
        ELSE sc.terms

unparse(v, pow, mult) ==
    LET terms == unparseTerms(v, pow, mult)
    IN  Join([i \in 1..Len(terms) |-> FormatInt(terms[i].n) \o terms[i].u])

(***************************************************************************)
(* The flag holders Value2 and Value10.                                    *)
(***************************************************************************)
\* the value after Set and the error it returns, r being what parse returned:
\* the value is assigned only if err == nil
SetReturn(v, r) == [v |-> IF r.err = "nil" THEN r.size ELSE v, err |-> r.err]

\* a Set that assigns whatever parse returned
Value2SetAlways(v, s) == [v |-> parse(s, units2).size, err |-> parse(s, units2).err]

\* (*Value2).Set: the value after the call and the error returned
Value2Set(v, s) == SetReturn(v, parse(s, units2))

\* (*Value10).Set
Value10Set(v, s) == SetReturn(v, parse(s, units10))

\* Value2.String
Value2String(v) == unparse(v, 1024, mult2)

\* Value10.String
Value10String(v) == unparse(v, 1000, mult10)

UnitsOf(kind) == IF kind = "Value2" THEN units2 ELSE units10

SetOf(kind, v, s) == IF kind = "Value2" THEN Value2Set(v, s) ELSE Value10Set(v, s)

StringOf(kind, v) == IF kind = "Value2" THEN Value2String(v) ELSE Value10String(v)

(***************************************************************************)
(* Package enumflag (src/enumflag/flag.go).  A Value is its keys and the   *)
(* selected index; the index counts from 0 as in the source, so the        *)
(* selected key is keys[index + 1].                                        *)
(***************************************************************************)
Upper ==
    <<"A", "B", "C", "D", "E", "F", "G", "H", "I", "J", "K", "L", "M",
      "N", "O", "P", "Q", "R", "S", "T", "U", "V", "W", "X", "Y", "Z">>

Lower ==
    <<"a", "b", "c", "d", "e", "f", "g", "h", "i", "j", "k", "l", "m",
      "n", "o", "p", "q", "r", "s", "t", "u", "v", "w", "x", "y", "z">>

\* the place of a letter in byte order: upper case comes before lower case
Code(c) == CHOOSE i \in 1..52 : (Upper \o Lower)[i] = c

\* the simple case folding of a letter
FoldChar(c) ==
    IF \E i \in 1..26 : Upper[i] = c
    THEN Lower[CHOOSE i \in 1..26 : Upper[i] = c]
    ELSE c

\* an EqualFold that tells upper case from lower case
EqualExact(s, t) == s = t

\* strings.EqualFold(s, t)
EqualFold(s, t) ==
    /\ Len(s) = Len(t)
    /\ \A i \in 1..Len(s) : FoldChar(s[i]) = FoldChar(t[i])

\* a < b in the byte order sort.Strings uses
StrLess(a, b) ==
    \/ Len(a) < Len(b) /\ SubSeq(b, 1, Len(a)) = a
    \/ \E i \in 1..Min(Len(a), Len(b)) :
          /\ SubSeq(a, 1, i - 1) = SubSeq(b, 1, i - 1)
          /\ Code(a[i]) < Code(b[i])

\* the place entry i of keys takes when keys is sorted
SortedPlace(keys, i) ==
    Cardinality({j \in 1..Len(keys) : StrLess(keys[j], keys[i])})
        + Cardinality({j \in 1..(i - 1) : keys[j] = keys[i]}) + 1

\* sort.Strings(keys)
SortStrings(keys) ==
    [k \in 1..Len(keys) |->
        keys[CHOOSE i \in 1..Len(keys) : SortedPlace(keys, i) = k]]

\* the zero Value
ZeroValue == [keys |-> <<>>, index |-> 0]

\* the index the loop of New finds for defaultKey in the sorted keys
DefaultIndex(keys, defaultKey) ==
    (CHOOSE i \in 1..Len(keys) :
        /\ keys[i] = defaultKey
        /\ \A j \in 1..(i - 1) : keys[j] # defaultKey) - 1

\* a New that leaves the index at its zero value
NewIndexZero(defaultKey, otherKeys) ==
    [keys |-> SortStrings(Append(otherKeys, defaultKey)), index |-> 0]

\* New(defaultKey, otherKeys...)
New(defaultKey, otherKeys) ==
    [keys |-> SortStrings(Append(otherKeys, defaultKey)),
     index |-> DefaultIndex(SortStrings(Append(otherKeys, defaultKey)), defaultKey)]

\* Value.Key: the key returned; an index outside keys is a run-time panic
Key(v) ==
    IF Len(v.keys) = 0 THEN [out |-> <<>>, err |-> "nil"]
    ELSE IF v.index + 1 \in 1..Len(v.keys)
    THEN [out |-> v.keys[v.index + 1], err |-> "nil"]
    ELSE [out |-> <<>>, err |-> "panic"]

\* Value.Get
Get(v) == Key(v)

\* Value.Index
Index(v) == v.index

\* fmt.Sprintf("%q", s) for a string of printable characters other than
\* the quote and the backslash
Quote(s) == <<"\"">> \o s \o <<"\"">>

\* Value.String
EnumString(v) == [out |-> Quote(Key(v).out), err |-> Key(v).err]

\* strings.Join(keys, "|")
RECURSIVE JoinBar(_)
JoinBar(keys) ==
    IF keys = <<>> THEN <<>>
    ELSE IF Len(keys) = 1 THEN keys[1]
    ELSE keys[1] \o <<"|">> \o JoinBar(Tail(keys))

\* Value.Help(h)
Help(v, h) == h \o <<" ", "(">> \o JoinBar(v.keys) \o <<")">>

\* (*Value).Set(s): the Value after the call and the error returned; the
\* first key that matches s is selected
EnumSet(v, s) ==
    IF \E i \in 1..Len(v.keys) : EqualFold(s, v.keys[i])
    THEN [v |-> [v EXCEPT !.index =
                    (CHOOSE i \in 1..Len(v.keys) :
                        /\ EqualFold(s, v.keys[i])
                        /\ \A j \in 1..(i - 1) : ~EqualFold(s, v.keys[j])) - 1],
          err |-> "nil"]
    ELSE [v |-> v, err |-> "expected one of"]

(***************************************************************************)
(* Package time (src/time/time.go).  A time.Time is its year, month, day,  *)
(* hour and minute in UTC; the layouts are made of the elements 2006, 01,  *)
(* 02, 15, 3, 04, PM and literal characters, which is what time.Kitchen    *)
(* and the layouts of the package's documentation and test use.            *)
(***************************************************************************)
\* time.Time{}: January 1, year 1, 00:00 UTC
ZeroTime == [y |-> 1, mo |-> 1, d |-> 1, h |-> 0, mi |-> 0]

\* time.Kitchen
Kitchen == <<"3", ":", "0", "4", "P", "M">>

IsPrefix(p, s) == Len(p) <= Len(s) /\ SubSeq(s, 1, Len(p)) = p

\* the layout elements the model knows, longest first
StdChunks ==
    << <<"2", "0", "0", "6">>, <<"0", "1">>, <<"0", "2">>, <<"0", "4">>,
       <<"1", "5">>, <<"P", "M">>, <<"3">> >>

\* the element a layout starts with (time.nextStdChunk): one of StdChunks,
\* or else its first character as a literal
NextChunk(layout) ==
    IF \E i \in 1..Len(StdChunks) : IsPrefix(StdChunks[i], layout)
    THEN [std |-> TRUE,
          c |-> StdChunks[CHOOSE i \in 1..Len(StdChunks) :
                              IsPrefix(StdChunks[i], layout)]]
    ELSE [std |-> FALSE, c |-> <<layout[1]>>]

\* the elements of a layout, in order
RECURSIVE Chunks(_)
Chunks(layout) ==
    IF layout = <<>> THEN <<>>
    ELSE <<NextChunk(layout)>>
         \o Chunks(SubSeq(layout, Len(NextChunk(layout).c) + 1, Len(layout)))

\* time.getnum(s, fixed): one or two digits, two if fixed
GetNum(s, fixed) ==
    IF s = <<>> \/ ~IsDigit(s[1]) THEN [n |-> 0, rest |-> s, err |-> "bad"]
    ELSE IF Len(s) < 2 \/ ~IsDigit(s[2])
    THEN (IF fixed THEN [n |-> 0, rest |-> s, err |-> "bad"]
          ELSE [n |-> DigitVal(s[1]), rest |-> Tail(s), err |-> "nil"])
    ELSE [n |-> 10 * DigitVal(s[1]) + DigitVal(s[2]),
          rest |-> SubSeq(s, 3, Len(s)), err |-> "nil"]

\* the state of time.Parse between two elements of the layout
ScanStart(value) ==
    [val |-> value, y |-> 0, mo |-> 1, d |-> 1, h |-> 0, mi |-> 0,
     pm |-> FALSE, am |-> FALSE, err |-> "nil"]

\* a number read for field f that must lie in lo..hi
TakeNum(st, num, f, lo, hi) ==
    IF num.err # "nil" THEN [st EXCEPT !.err = "bad"]
    ELSE IF num.n < lo \/ num.n > hi THEN [st EXCEPT !.err = "range"]
    ELSE [st EXCEPT !.val = num.rest, ![f] = num.n]

\* a literal character of the layout (time.skip): a space stands for any
\* run of spaces, every other character for itself (no layout here has two
\* spaces in a row)
SkipChar(st, c) ==
    IF c = " "
    THEN (IF st.val # <<>> /\ st.val[1] # " " THEN [st EXCEPT !.err = "bad"]
          ELSE [st EXCEPT !.val =
                   SubSeq(st.val,
                          1 + Cardinality({i \in 1..Len(st.val) :
                                              \A j \in 1..i : st.val[j] = " "}),
                          Len(st.val))])
    ELSE IF st.val = <<>> \/ st.val[1] # c THEN [st EXCEPT !.err = "bad"]
    ELSE [st EXCEPT !.val = Tail(st.val)]

\* one element of the layout matched against the value
ScanChunk(st, ch) ==
    IF ~ch.std THEN SkipChar(st, ch.c[1])
    ELSE IF ch.c = <<"2", "0", "0", "6">>
    THEN (IF Len(st.val) < 4 \/ DigitRun(st.val, 1) < 4
          THEN [st EXCEPT !.err = "bad"]
          ELSE [st EXCEPT !.val = SubSeq(st.val, 5, Len(st.val)),
                          !.y = DigitsInt(SubSeq(st.val, 1, 4))])
    ELSE IF ch.c = <<"0", "1">> THEN TakeNum(st, GetNum(st.val, TRUE), "mo", 1, 12)
    ELSE IF ch.c = <<"0", "2">> THEN TakeNum(st, GetNum(st.val, TRUE), "d", 0, 99)
    ELSE IF ch.c = <<"1", "5">> THEN TakeNum(st, GetNum(st.val, TRUE), "h", 0, 23)
    ELSE IF ch.c = <<"3">> THEN TakeNum(st, GetNum(st.val, FALSE), "h", 0, 12)
    ELSE IF ch.c = <<"0", "4">> THEN TakeNum(st, GetNum(st.val, TRUE), "mi", 0, 59)
    ELSE IF IsPrefix(<<"P", "M">>, st.val)
    THEN [st EXCEPT !.val = SubSeq(st.val, 3, Len(st.val)), !.pm = TRUE]
    ELSE IF IsPrefix(<<"A", "M">>, st.val)
    THEN [st EXCEPT !.val = SubSeq(st.val, 3, Len(st.val)), !.am = TRUE]
    ELSE [st EXCEPT !.err = "bad"]

\* the elements of the layout matched one after the other, up to an error
RECURSIVE ScanChunks(_, _)
ScanChunks(st, chunks) ==
    IF chunks = <<>> \/ st.err # "nil" THEN st
    ELSE ScanChunks(ScanChunk(st, chunks[1]), Tail(chunks))

IsLeap(y) == y % 4 = 0 /\ (y % 100 # 0 \/ y % 400 = 0)

\* time.daysIn(month, year)
DaysIn(mo, y) ==
    IF mo = 2 THEN (IF IsLeap(y) THEN 29 ELSE 28)
    ELSE IF mo \in {4, 6, 9, 11} THEN 30 ELSE 31

\* the hour of a 12-hour clock with its AM or PM
Hour24(st) ==
    IF st.pm /\ st.h < 12 THEN st.h + 12
    ELSE IF st.am /\ st.h = 12 THEN 0
    ELSE st.h

\* what time.Parse returns for the state the scan ended in: text left over
\* and a day the month does not have are errors, and every error comes with
\* the zero Time
ScanResult(st) ==
    IF st.err # "nil" THEN [t |-> ZeroTime, err |-> "cannot parse"]
    ELSE IF st.val # <<>> THEN [t |-> ZeroTime, err |-> "extra text"]
    ELSE IF st.d < 1 \/ st.d > DaysIn(st.mo, st.y)
    THEN [t |-> ZeroTime, err |-> "day out of range"]
    ELSE [t |-> [y |-> st.y, mo |-> st.mo, d |-> st.d, h |-> Hour24(st), mi |-> st.mi],
          err |-> "nil"]

\* time.Parse(layout, value)
TimeParse(layout, value) ==
    ScanResult(ScanChunks(ScanStart(value), Chunks(layout)))

\* parse(s, format) of package time
timeParse(s, format) ==
    IF format = <<>> THEN TimeParse(Kitchen, s) ELSE TimeParse(format, s)

TwoDigits(n) == <<DigitChars[(n \div 10) + 1], DigitChars[(n % 10) + 1]>>

\* one element of the layout written for t
FormatChunk(t, ch) ==
    IF ~ch.std THEN ch.c
    ELSE IF ch.c = <<"2", "0", "0", "6">> THEN FormatFour(t.y)
    ELSE IF ch.c = <<"0", "1">> THEN TwoDigits(t.mo)
    ELSE IF ch.c = <<"0", "2">> THEN TwoDigits(t.d)
    ELSE IF ch.c = <<"1", "5">> THEN TwoDigits(t.h)
    ELSE IF ch.c = <<"3">>
    THEN (IF t.h % 12 = 0 THEN <<"1", "2">> ELSE FormatSmall(t.h % 12))
    ELSE IF ch.c = <<"0", "4">> THEN TwoDigits(t.mi)
    ELSE IF t.h >= 12 THEN <<"P", "M">> ELSE <<"A", "M">>

RECURSIVE FormatChunks(_, _)
FormatChunks(t, chunks) ==
    IF chunks = <<>> THEN <<>>
    ELSE FormatChunk(t, chunks[1]) \o FormatChunks(t, Tail(chunks))

\* format(t, format) of package time
timeFormat(t, format) ==
    IF format = <<>> THEN Quote(FormatChunks(t, Chunks(Kitchen)))
    ELSE Quote(FormatChunks(t, Chunks(format)))

\* (*Value).Set(s) of package time: v.Time, err = parse(s, v.Layout)
TimeSet(v, s) ==
    [v |-> [v EXCEPT !.Time = timeParse(s, v.Layout).t],
     err |-> timeParse(s, v.Layout).err]

\* (*Value).Get
TimeGet(v) == v.Time

\* (*Value).String
TimeString(v) == timeFormat(v.Time, v.Layout)

\* (*Value).Help(h)
TimeHelp(v, h) ==
    IF v.Layout = <<>> THEN h \o <<" ", "(", "e", ".", "g", ".", ",", " ">> \o Quote(Kitchen) \o <<")">>
    ELSE h \o <<" ", "(", "e", ".", "g", ".", ",", " ">> \o Quote(v.Layout) \o <<")">>

(***************************************************************************)
(* State.                                                                  *)
(*   heap    the integer cells of the program: heap[c].v is the value of   *)
(*           cell c, heap[c].own tells whether the caller declared the     *)
(*           variable ("caller") or Base2/Base10 allocated it ("flag")     *)
(*   flags   the flag pointers Base2/Base10 have returned: the cell a      *)
(*           pointer points at and its type (Value2 or Value10)            *)
(*   last    the last call: its name, the flag it went through or          *)
(*           returned, its initializer or text argument, the error it      *)
(*           returned ("panic" when it panicked) and the string it         *)
(*           returned                                                      *)
(*   lastOk  per cell, the initial value and the text and type of the most *)
(*           recent Set on the cell that returned nil (history)            *)
(*   in, tbl, ps   one call of parse: the input it was given (kept in      *)
(*           pieces), the unit table, and the state of the call            *)
(*   ev      an enumflag.Value: its keys and the selected index            *)
(*   eargs   the arguments New was called with, the default key first      *)
(*           (history)                                                     *)
(*   elast   the last call on ev: its name, its argument, the error and    *)
(*           the string or index it returned                               *)
(*   eok     the text of the most recent Set on ev that returned nil       *)
(*           (history)                                                     *)
(*   tv      a time.Value: its Layout and its Time                         *)
(*   tlast   the last call on tv                                           *)
(*   tok     the Time tv started with or, after a Set that returned nil,   *)
(*           the Time parse returned to the most recent such Set (history) *)
(***************************************************************************)
VARIABLES heap, flags, last, lastOk, in, tbl, ps, ev, eargs, elast, eok,
          tv, tlast, tok

vars == <<heap, flags, last, lastOk, in, tbl, ps, ev, eargs, elast, eok,
          tv, tlast, tok>>

enumVars == <<ev, eargs, elast, eok>>

timeVars == <<tv, tlast, tok>>

flagVars == <<heap, flags, last, lastOk>>

parseVars == <<in, tbl, ps>>

\* an initializer handed to Base2 or Base10: its dynamic type t, the integer n
\* of an int and the cell c a pointer points at
NoInit == [t |-> "nil", n |-> <<>>, c |-> 0]

NoCall ==
    [op |-> "none", flag |-> 0, init |-> NoInit, arg |-> <<>>, err |-> "nil",
     out |-> <<>>]

NoInput == [lead |-> <<>>, terms |-> <<>>, gap |-> <<>>, tail |-> <<>>, trail |-> <<>>]

NoEnumCall == [op |-> "none", arg |-> <<>>, err |-> "nil", out |-> <<>>, idx |-> 0]

NoTimeCall == [op |-> "none", arg |-> <<>>, err |-> "nil", out |-> <<>>, t |-> ZeroTime]

\* no enumflag.Value has been made
EnumIdle == ev = ZeroValue /\ eargs = <<>> /\ elast = NoEnumCall /\ eok = <<>>

\* no time.Value has been made
TimeIdle == tv = [Layout |-> <<>>, Time |-> ZeroTime] /\ tlast = NoTimeCall /\ tok = ZeroTime

\* no size flag and no call of the size parser
SizeIdle ==
    /\ heap = <<>> /\ flags = <<>> /\ last = NoCall /\ lastOk = <<>>
    /\ in = NoInput /\ tbl = "units2"
    /\ ps = ParseStart(<<>>)

(***************************************************************************)
(* The inputs of parse.  An input is kept in pieces: leading whitespace,   *)
(* the pieces <num><unit> it was written from, the whitespace put after    *)
(* each of them, a last piece and trailing whitespace.  parse is given the *)
(* concatenation, Text(in).                                                *)
(***************************************************************************)
RECURSIVE TermsText(_, _)
TermsText(terms, gap) ==
    IF terms = <<>> THEN <<>>
    ELSE terms[1].num \o <<terms[1].unit>> \o gap \o TermsText(Tail(terms), gap)

Text(i) == i.lead \o TermsText(i.terms, i.gap) \o i.tail \o i.trail

\* the inputs of TestSet (src/sizeflag/flag_test.go:15-42)
TestSetInputs ==
    { [lead |-> <<>>, terms |-> <<>>, gap |-> <<>>,
       tail |-> <<"0">>, trail |-> <<>>],
      [lead |-> <<>>, terms |-> <<>>, gap |-> <<>>,
       tail |-> <<"1">>, trail |-> <<>>],
      [lead |-> <<>>, terms |-> <<>>, gap |-> <<>>,
       tail |-> <<"1", "2", "3", "4", "5", "6", "7", "8">>, trail |-> <<>>],
      [lead |-> <<>>, terms |-> <<[num |-> <<"0", ".", "5">>, unit |-> "k"]>>, gap |-> <<>>,
       tail |-> <<>>, trail |-> <<>>],
      [lead |-> <<>>, terms |-> <<[num |-> <<"2", ".", "3">>, unit |-> "K"]>>, gap |-> <<>>,
       tail |-> <<>>, trail |-> <<>>],
      [lead |-> <<>>, terms |-> <<[num |-> <<"1", ".", "2">>, unit |-> "m"]>>, gap |-> <<>>,
       tail |-> <<>>, trail |-> <<>>],
      [lead |-> <<>>, terms |-> <<[num |-> <<"3", ".", "7">>, unit |-> "P"]>>, gap |-> <<>>,
       tail |-> <<>>, trail |-> <<>>],
      [lead |-> <<>>, terms |-> <<[num |-> <<"0", ".", "2", "5">>, unit |-> "p"]>>, gap |-> <<>>,
       tail |-> <<>>, trail |-> <<>>],
      [lead |-> <<>>, terms |-> <<[num |-> <<"0">>, unit |-> "K"], [num |-> <<"0", "0">>, unit |-> "m"]>>, gap |-> <<>>,
       tail |-> <<"0">>, trail |-> <<>>],
      [lead |-> <<>>, terms |-> <<[num |-> <<"1">>, unit |-> "k"], [num |-> <<"1">>, unit |-> "k"], [num |-> <<"1">>, unit |-> "k"]>>, gap |-> <<>>,
       tail |-> <<>>, trail |-> <<>>],
      [lead |-> <<>>, terms |-> <<[num |-> <<"2">>, unit |-> "K"]>>, gap |-> <<>>,
       tail |-> <<"1", "5">>, trail |-> <<>>],
      [lead |-> <<>>, terms |-> <<[num |-> <<"2">>, unit |-> "k"]>>, gap |-> <<>>,
       tail |-> <<"1", "5">>, trail |-> <<>>],
      [lead |-> <<>>, terms |-> <<[num |-> <<"1", ".", "7">>, unit |-> "M"], [num |-> <<"0", ".", "3">>, unit |-> "K"]>>, gap |-> <<>>,
       tail |-> <<>>, trail |-> <<>>],
      [lead |-> <<>>, terms |-> <<[num |-> <<"3">>, unit |-> "m"], [num |-> <<"2", ".", "5">>, unit |-> "k"]>>, gap |-> <<>>,
       tail |-> <<"1", "7">>, trail |-> <<>>],
      [lead |-> <<>>, terms |-> <<[num |-> <<"2">>, unit |-> "k"]>>, gap |-> <<" ">>,
       tail |-> <<"1", "0", "0">>, trail |-> <<>>],
      [lead |-> <<>>, terms |-> <<[num |-> <<"2">>, unit |-> "k"]>>, gap |-> <<>>,
       tail |-> <<"1", "0", "0">>, trail |-> <<>>],
      [lead |-> <<>>, terms |-> <<[num |-> <<"1">>, unit |-> "k"], [num |-> <<"1">>, unit |-> "k"]>>, gap |-> <<" ">>,
       tail |-> <<"1", "0", "0">>, trail |-> <<>>],
      [lead |-> <<" ">>, terms |-> <<>>, gap |-> <<>>,
       tail |-> <<"1", "2", "3">>, trail |-> <<" ">>],
      [lead |-> <<>>, terms |-> <<[num |-> <<"1", ".", "4">>, unit |-> "M"], [num |-> <<"2">>, unit |-> "K"]>>, gap |-> <<" ">>,
       tail |-> <<"1", "7">>, trail |-> <<>>],
      [lead |-> <<"\n", "\t">>, terms |-> <<[num |-> <<"2", ".", "1">>, unit |-> "k"]>>, gap |-> <<"\n", "\r", "\t", " ">>,
       tail |-> <<"1", "1">>, trail |-> <<" ", "\t">>] }

\* the inputs of TestParseErrors (src/sizeflag/flag_test.go:67-77)
TestErrorInputs ==
    { [lead |-> <<>>, terms |-> <<>>, gap |-> <<>>,
       tail |-> <<>>, trail |-> <<>>],
      [lead |-> <<" ", " ">>, terms |-> <<>>, gap |-> <<>>,
       tail |-> <<>>, trail |-> <<>>],
      [lead |-> <<>>, terms |-> <<>>, gap |-> <<>>,
       tail |-> <<"k">>, trail |-> <<>>],
      [lead |-> <<>>, terms |-> <<>>, gap |-> <<>>,
       tail |-> <<".", "1">>, trail |-> <<>>],
      [lead |-> <<>>, terms |-> <<>>, gap |-> <<>>,
       tail |-> <<"1", ".">>, trail |-> <<>>],
      [lead |-> <<>>, terms |-> <<>>, gap |-> <<>>,
       tail |-> <<"2", ".", "1">>, trail |-> <<>>],
      [lead |-> <<>>, terms |-> <<[num |-> <<"1", "7">>, unit |-> "k"]>>, gap |-> <<>>,
       tail |-> <<"k">>, trail |-> <<>>],
      [lead |-> <<>>, terms |-> <<>>, gap |-> <<>>,
       tail |-> <<"-", "1", "6", ".", "3", "m", "b", "b">>, trail |-> <<>>],
      [lead |-> <<>>, terms |-> <<[num |-> <<"1">>, unit |-> "b"], [num |-> <<"2">>, unit |-> "k"]>>, gap |-> <<>>,
       tail |-> <<"q", "q">>, trail |-> <<>>],
      [lead |-> <<>>, terms |-> <<[num |-> <<"6", ".", "7">>, unit |-> "q"]>>, gap |-> <<>>,
       tail |-> <<>>, trail |-> <<>>],
      [lead |-> <<>>, terms |-> <<[num |-> <<"0">>, unit |-> "b"]>>, gap |-> <<>>,
       tail |-> <<"1", "c", "e", "0">>, trail |-> <<>>] }

\* signed and out-of-range digit strings, partial sums, wrap-around
EdgeInputs ==
    { [lead |-> <<>>, terms |-> <<>>, gap |-> <<>>,
       tail |-> <<"-", "5">>, trail |-> <<>>],
      [lead |-> <<>>, terms |-> <<>>, gap |-> <<>>,
       tail |-> <<"+", "5">>, trail |-> <<>>],
      [lead |-> <<>>, terms |-> <<>>, gap |-> <<>>,
       tail |-> <<"-">>, trail |-> <<>>],
      [lead |-> <<>>, terms |-> <<[num |-> <<"1">>, unit |-> "k"]>>, gap |-> <<>>,
       tail |-> <<"-", "5">>, trail |-> <<>>],
      [lead |-> <<>>, terms |-> <<[num |-> <<"1">>, unit |-> "k"]>>, gap |-> <<" ">>,
       tail |-> <<"-", "5">>, trail |-> <<>>],
      [lead |-> <<>>, terms |-> <<[num |-> <<"1">>, unit |-> "k"], [num |-> <<"1">>, unit |-> "b"]>>, gap |-> <<>>,
       tail |-> <<>>, trail |-> <<>>],
      [lead |-> <<>>, terms |-> <<>>, gap |-> <<>>,
       tail |-> <<"b", "o", "g", "u", "s">>, trail |-> <<>>],
      [lead |-> <<>>, terms |-> <<[num |-> <<"3", "1", ".", "5">>, unit |-> "k"]>>, gap |-> <<>>,
       tail |-> <<>>, trail |-> <<>>],
      [lead |-> <<>>, terms |-> <<[num |-> <<"0", ".", "2", "5">>, unit |-> "k"]>>, gap |-> <<>>,
       tail |-> <<>>, trail |-> <<>>],
      [lead |-> <<>>, terms |-> <<[num |-> <<"4", "0", "9", "6">>, unit |-> "p"], [num |-> <<"4", "0", "9", "6">>, unit |-> "p"]>>, gap |-> <<>>,
       tail |-> <<>>, trail |-> <<>>],
      [lead |-> <<>>, terms |-> <<>>, gap |-> <<>>,
       tail |-> <<"9", "2", "2", "3", "3", "7", "2", "0", "3", "6", "8", "5", "4", "7", "7", "5", "8", "0", "7">>, trail |-> <<>>],
      [lead |-> <<>>, terms |-> <<>>, gap |-> <<>>,
       tail |-> <<"9", "2", "2", "3", "3", "7", "2", "0", "3", "6", "8", "5", "4", "7", "7", "5", "8", "0", "8">>, trail |-> <<>>],
      [lead |-> <<>>, terms |-> <<>>, gap |-> <<>>,
       tail |-> <<"-", "9", "2", "2", "3", "3", "7", "2", "0", "3", "6", "8", "5", "4", "7", "7", "5", "8", "0", "8">>, trail |-> <<>>],
      [lead |-> <<>>, terms |-> <<[num |-> <<"1">>, unit |-> "k"]>>, gap |-> <<>>,
       tail |-> <<"9", "2", "2", "3", "3", "7", "2", "0", "3", "6", "8", "5", "4", "7", "7", "5", "8", "0", "7">>, trail |-> <<>>],
      [lead |-> <<"\t">>, terms |-> <<>>, gap |-> <<>>,
       tail |-> <<>>, trail |-> <<"\n">>] }

\* numbers of a term: digits ['.' digits]
GoodNumbers ==
    { <<"0">>,
      <<"1">>,
      <<"2">>,
      <<"1", "7">>,
      <<"0", ".", "5">>,
      <<"2", ".", "3">>,
      <<"1", ".", "7">>,
      <<"0", ".", "3">>,
      <<"3", ".", "7">>,
      <<"4", ".", "7">>,
      <<"0", ".", "2", "5">>,
      <<"1", ".", "0", "0", "1">>,
      <<"4", "0", "9", "6">> }

\* strings that are no number of the grammar
BadNumbers ==
    { <<>>, <<"1", ".">>, <<".", "1">>, <<"-", "1">> }

\* the unit letters of the documented grammar in both cases, and two letters
\* that are no unit
AllUnits == {"k", "m", "g", "t", "p", "e", "K", "M", "G", "T", "P", "E", "b", "q"}

SingleTails == { <<>>, <<"1", "5">>, <<"-", "5">>, <<"q", "q">>, <<"2", ".", "1">> }

\* one piece <num><unit> and a last piece
SingleInputs ==
    { [lead |-> <<>>, terms |-> <<[num |-> n, unit |-> u]>>, gap |-> <<>>,
       tail |-> d, trail |-> <<>>] :
        n \in GoodNumbers \cup BadNumbers, u \in AllUnits, d \in SingleTails }

\* the terms the longer inputs are written from
TermSet ==
    { [num |-> <<"1">>, unit |-> "k"],
      [num |-> <<"2">>, unit |-> "k"],
      [num |-> <<"2", ".", "3">>, unit |-> "K"],
      [num |-> <<"1", ".", "7">>, unit |-> "M"],
      [num |-> <<"0", ".", "3">>, unit |-> "K"],
      [num |-> <<"3">>, unit |-> "m"],
      [num |-> <<"4", ".", "7">>, unit |-> "p"],
      [num |-> <<"1", ".", "0", "0", "1">>, unit |-> "g"],
      [num |-> <<"1">>, unit |-> "b"] }

MaxTerms == 2

RECURSIVE SeqsUpTo(_, _)
SeqsUpTo(S, n) ==
    IF n = 0 THEN {<<>>}
    ELSE LET shorter == SeqsUpTo(S, n - 1)
         IN  shorter \cup {Append(q, x) : q \in shorter, x \in S}

Blank == <<"\n", "\r", "\t", " ">>

\* where whitespace is put: nowhere, around the text, after each term, both
Pads ==
    { [lead |-> <<>>, gap |-> <<>>, trail |-> <<>>],
      [lead |-> <<" ">>, gap |-> <<>>, trail |-> Blank],
      [lead |-> <<>>, gap |-> <<" ">>, trail |-> <<>>],
      [lead |-> Blank, gap |-> Blank, trail |-> <<" ">>] }

SeqTails == { <<>>, <<"1", "5">>, <<"0", "1", "7">> }

\* up to MaxTerms terms, whitespace, a trailing digit string
SeqInputs ==
    { [lead |-> p.lead, terms |-> ts, gap |-> p.gap, tail |-> d, trail |-> p.trail] :
        ts \in SeqsUpTo(TermSet, MaxTerms), p \in Pads, d \in SeqTails }

Inputs == TestSetInputs \cup TestErrorInputs \cup EdgeInputs \cup SingleInputs \cup SeqInputs

Tables == {"units2", "units10"}

TableOf(name) == IF name = "units2" THEN units2 ELSE units10

(***************************************************************************)
(* One call of parse, an iteration of its loop at a time.                  *)
(***************************************************************************)
ParseInit ==
    /\ in \in Inputs
    /\ tbl \in Tables
    /\ ps = ParseStart(Text(in))
    /\ heap = <<>> /\ flags = <<>> /\ last = NoCall /\ lastOk = <<>>
    /\ EnumIdle /\ TimeIdle

\* lines 173-192: one iteration of the term loop
TermLoop ==
    /\ ps.pc = "loop"
    /\ ps' = LoopIter(ps, TableOf(tbl))
    /\ UNCHANGED <<in, tbl, flagVars, enumVars, timeVars>>

\* lines 193-202: the residual text and the return
Finish ==
    /\ ps.pc = "tail"
    /\ ps' = AfterLoop(ps)
    /\ UNCHANGED <<in, tbl, flagVars, enumVars, timeVars>>

ParseNext == TermLoop \/ Finish

SpecParse == ParseInit /\ [][ParseNext]_vars

\* A call of parse runs on until it returns: nothing in it waits.  This is
\* weak fairness of ParseNext with its enabling condition written out: a
\* step of ParseNext is possible exactly while the call has not returned
\* (the loop counts its iterations and Finish returns), and by
\* [][ParseNext]_vars every step that changes vars is one of ParseNext.
SpecParseFair == SpecParse /\ ([]<>(ps.pc = "ret") \/ []<><<ps.pc # "ret">>_vars)

(***************************************************************************)
(* The flags of a program: Base2, Base10, Set and String in any order.     *)
(***************************************************************************)
\* the caller's int variables at the start
NumVars == 1

\* the value of a caller's variable at the start (dim of ExampleBase2)
VarValues == {<<1024>>}

\* the plain integers handed to Base2 and Base10 (TestFlagBits, ExampleBase2)
InitInts == {<<11>>}

MaxFlags == 2

\* the texts handed to Set: the arguments of TestFlagBits and a text that
\* fails after a term was added to the total
SetTexts ==
    { <<"3", "1", ".", "5", "k">>,
      <<"0", ".", "2", "5", "k">>,
      <<"1", "k", "1", "b">> }

\* the initializers a caller can write in a state
Initializers ==
    {NoInit}
    \cup {[t |-> "int", n |-> n, c |-> 0] : n \in InitInts}
    \cup {[t |-> "*int", n |-> <<>>, c |-> c] :
              c \in {c \in 1..Len(heap) : heap[c].own = "caller"}}
    \cup {[t |-> "*" \o flags[f].kind, n |-> <<>>, c |-> flags[f].cell] :
              f \in 1..Len(flags)}
    \cup {[t |-> "string", n |-> <<>>, c |-> 0]}

NoPointer == [cell |-> 0, kind |-> "none"]

\* a Base2 whose int case hands out the first cell of the heap
Base2Aliasing(h, init) ==
    CASE init.t = "nil" ->
           [heap |-> Append(h, [v |-> <<>>, own |-> "flag"]),
            ptr |-> [cell |-> Len(h) + 1, kind |-> "Value2"], err |-> "nil"]
      [] init.t = "*Value2" ->
           [heap |-> h, ptr |-> [cell |-> init.c, kind |-> "Value2"], err |-> "nil"]
      [] init.t = "int" ->
           [heap |-> [h EXCEPT ![1].v = init.n],
            ptr |-> [cell |-> 1, kind |-> "Value2"], err |-> "nil"]
      [] init.t = "*int" ->
           [heap |-> h, ptr |-> [cell |-> init.c, kind |-> "Value2"], err |-> "nil"]
      [] OTHER ->
           [heap |-> h, ptr |-> NoPointer, err |-> "panic"]

\* Base2(v): the heap after the call, the pointer returned, and whether the
\* call panicked
Base2(h, init) ==
    CASE init.t = "nil" ->
           [heap |-> Append(h, [v |-> <<>>, own |-> "flag"]),
            ptr |-> [cell |-> Len(h) + 1, kind |-> "Value2"], err |-> "nil"]
      [] init.t = "*Value2" ->
           [heap |-> h, ptr |-> [cell |-> init.c, kind |-> "Value2"], err |-> "nil"]
      [] init.t = "int" ->
           [heap |-> Append(h, [v |-> init.n, own |-> "flag"]),
            ptr |-> [cell |-> Len(h) + 1, kind |-> "Value2"], err |-> "nil"]
      [] init.t = "*int" ->
           [heap |-> h, ptr |-> [cell |-> init.c, kind |-> "Value2"], err |-> "nil"]
      [] OTHER ->
           [heap |-> h, ptr |-> NoPointer, err |-> "panic"]

\* a Base10 that takes an initializer of any other type for nil
Base10NoPanic(h, init) ==
    CASE init.t = "*Value10" ->
           [heap |-> h, ptr |-> [cell |-> init.c, kind |-> "Value10"], err |-> "nil"]
      [] init.t = "int" ->
           [heap |-> Append(h, [v |-> init.n, own |-> "flag"]),
            ptr |-> [cell |-> Len(h) + 1, kind |-> "Value10"], err |-> "nil"]
      [] init.t = "*int" ->
           [heap |-> h, ptr |-> [cell |-> init.c, kind |-> "Value10"], err |-> "nil"]
      [] OTHER ->
           [heap |-> Append(h, [v |-> <<>>, own |-> "flag"]),
            ptr |-> [cell |-> Len(h) + 1, kind |-> "Value10"], err |-> "nil"]

\* Base10(v)
Base10(h, init) ==
    CASE init.t = "nil" ->
           [heap |-> Append(h, [v |-> <<>>, own |-> "flag"]),
            ptr |-> [cell |-> Len(h) + 1, kind |-> "Value10"], err |-> "nil"]
      [] init.t = "*Value10" ->
           [heap |-> h, ptr |-> [cell |-> init.c, kind |-> "Value10"], err |-> "nil"]
      [] init.t = "int" ->
           [heap |-> Append(h, [v |-> init.n, own |-> "flag"]),
            ptr |-> [cell |-> Len(h) + 1, kind |-> "Value10"], err |-> "nil"]
      [] init.t = "*int" ->
           [heap |-> h, ptr |-> [cell |-> init.c, kind |-> "Value10"], err |-> "nil"]
      [] OTHER ->
           [heap |-> h, ptr |-> NoPointer, err |-> "panic"]

\* the index of pointer p among the flags, a new one for a new pointer
FlagIndex(fl, p) ==
    IF \E i \in 1..Len(fl) : fl[i] = p
    THEN CHOOSE i \in 1..Len(fl) : fl[i] = p
    ELSE Len(fl) + 1

NoSet == [text |-> <<>>, kind |-> "none"]

Init ==
    /\ heap \in [1..NumVars -> {[v |-> x, own |-> "caller"] : x \in VarValues}]
    /\ flags = <<>>
    /\ last = NoCall
    /\ lastOk = [c \in 1..NumVars |-> [init |-> heap[c].v, set |-> NoSet]]
    /\ in = NoInput /\ tbl = "units2" /\ ps = ParseStart(<<>>)
    /\ EnumIdle /\ TimeIdle

Running == last.err # "panic"

\* a call of Base2 or Base10 that returned r
BaseReturn(op, init, r) ==
    /\ r.err = "nil" => FlagIndex(flags, r.ptr) <= MaxFlags
    /\ heap' = r.heap
    /\ flags' = IF r.err = "nil" /\ FlagIndex(flags, r.ptr) > Len(flags)
                THEN Append(flags, r.ptr) ELSE flags
    /\ lastOk' = IF Len(r.heap) > Len(heap)
                 THEN Append(lastOk, [init |-> r.heap[Len(r.heap)].v, set |-> NoSet])
                 ELSE lastOk
    /\ last' = [op |-> op,
                flag |-> IF r.err = "nil" THEN FlagIndex(flags, r.ptr) ELSE 0,
                init |-> init, arg |-> <<>>, err |-> r.err, out |-> <<>>]
    /\ UNCHANGED <<parseVars, enumVars, timeVars>>

Base2Call ==
    /\ Running
    /\ \E init \in Initializers : BaseReturn("Base2", init, Base2(heap, init))

Base10Call ==
    /\ Running
    /\ \E init \in Initializers : BaseReturn("Base10", init, Base10(heap, init))

\* flags[f].Set(s)
SetCall(f, s) ==
    \E r \in {SetOf(flags[f].kind, heap[flags[f].cell].v, s)} :
        /\ heap' = [heap EXCEPT ![flags[f].cell].v = r.v]
        /\ lastOk' = IF r.err = "nil"
                     THEN [lastOk EXCEPT ![flags[f].cell].set =
                                            [text |-> s, kind |-> flags[f].kind]]
                     ELSE lastOk
        /\ last' = [op |-> "Set", flag |-> f, init |-> NoInit, arg |-> s,
                    err |-> r.err, out |-> <<>>]
        /\ UNCHANGED <<flags, parseVars, enumVars, timeVars>>

\* flags[f].String()
StringCall(f) ==
    /\ last' = [op |-> "String", flag |-> f, init |-> NoInit, arg |-> <<>>,
                err |-> "nil", out |-> StringOf(flags[f].kind, heap[flags[f].cell].v)]
    /\ UNCHANGED <<heap, flags, lastOk, parseVars, enumVars, timeVars>>

Set ==
    /\ Running
    /\ \E f \in 1..Len(flags) : \E s \in SetTexts : SetCall(f, s)

String ==
    /\ Running
    /\ \E f \in 1..Len(flags) : StringCall(f)

Next == Base2Call \/ Base10Call \/ Set \/ String

Spec == Init /\ [][Next]_vars

(***************************************************************************)
(* Rendering a quantity and reading the rendering back: a flag made by     *)
(* Base2(q) or Base10(q), then String, then Set on the string.             *)
(***************************************************************************)
MaxNonZero == 3

\* the number of units of rank r a quantity is written from: none, one, two
\* or the most that rank holds (the top rank holds 7 below 2^63)
Counts(scale) == {0, 1, 2, scale - 1}

TopCounts == {0, 1, 2, 7}

RECURSIVE SumRanks(_, _, _)
SumRanks(c, scale, r) ==
    IF r > 5 THEN <<>>
    ELSE BAdd(BMulSmall(BMulPow(<<1>>, scale, r), c[r]), SumRanks(c, scale, r + 1))

\* the quantities of a scale with at most MaxNonZero ranks in use
Quantities(scale) ==
    { BAdd(SumRanks(c, scale, 0), BMulSmall(BMulPow(<<1>>, scale, 6), top)) :
        <<c, top>> \in
            { ct \in [0..5 -> Counts(scale)] \X TopCounts :
                Cardinality({r \in 0..5 : ct[1][r] # 0})
                    + (IF ct[2] # 0 THEN 1 ELSE 0) <= MaxNonZero } }

FormatInit ==
    /\ \E kind \in {"Value2", "Value10"} :
         \E q \in Quantities(IF kind = "Value2" THEN 1024 ELSE 1000) :
            /\ heap = <<[v |-> q, own |-> "flag"]>>
            /\ flags = <<[cell |-> 1, kind |-> kind]>>
            /\ lastOk = <<[init |-> q, set |-> NoSet]>>
            /\ last = [op |-> IF kind = "Value2" THEN "Base2" ELSE "Base10",
                       flag |-> 1, init |-> [t |-> "int", n |-> q, c |-> 0],
                       arg |-> <<>>, err |-> "nil", out |-> <<>>]
    /\ in = NoInput /\ tbl = "units2" /\ ps = ParseStart(<<>>)
    /\ EnumIdle /\ TimeIdle

\* String on the new flag
Render ==
    /\ last.op \in {"Base2", "Base10"}
    /\ StringCall(1)

\* Set on what String returned
ReadBack ==
    /\ last.op = "String"
    /\ SetCall(1, last.out)

FormatNext == Render \/ ReadBack

SpecFormat == FormatInit /\ [][FormatNext]_vars

(***************************************************************************)
(* An enumflag.Value: the zero Value or one made by New, then Set, Key,    *)
(* Get, Index, String and Help in any order.                               *)
(***************************************************************************)
\* the keys handed to New: those of Example, a second spelling of one of
\* them and a key that starts with a capital letter
EnumKeys ==
    { <<"a", "u", "t", "o">>, <<"o", "n">>, <<"o", "f", "f">>, <<"O", "n">>,
      <<"Z", "e", "d">> }

\* the most keys New is given besides the default key
MaxOthers == 2

\* the texts handed to Set
EnumTexts ==
    { <<"o", "f", "f">>, <<"O", "F", "F">>, <<"o", "n">>, <<"O", "N">>,
      <<"a", "u", "t", "o">>, <<"z", "e", "d">>, <<"b", "o", "g", "u", "s">>,
      <<>> }

HelpTexts == { <<"E", "n", "a", "b", "l", "e">> }

EnumInit == SizeIdle /\ TimeIdle /\ EnumIdle

\* v := enumflag.New(d, others...)
EnumNewCall ==
    /\ elast.op = "none"
    /\ \E d \in EnumKeys : \E others \in SeqsUpTo(EnumKeys, MaxOthers) :
          /\ ev' = New(d, others)
          /\ eargs' = <<d>> \o others
          /\ elast' = [NoEnumCall EXCEPT !.op = "New"]
    /\ UNCHANGED <<eok, flagVars, parseVars, timeVars>>

\* a call on ev that reads it and returns the string out or the index idx
EnumRead(op, arg, r, idx) ==
    /\ elast.err # "panic"
    /\ elast' = [op |-> op, arg |-> arg, err |-> r.err, out |-> r.out, idx |-> idx]
    /\ UNCHANGED <<ev, eargs, eok, flagVars, parseVars, timeVars>>

EnumKeyCall == EnumRead("Key", <<>>, Key(ev), 0)

EnumGetCall == EnumRead("Get", <<>>, Get(ev), 0)

EnumIndexCall == EnumRead("Index", <<>>, [out |-> <<>>, err |-> "nil"], Index(ev))

EnumStringCall == EnumRead("String", <<>>, EnumString(ev), 0)

EnumHelpCall ==
    \E h \in HelpTexts : EnumRead("Help", h, [out |-> Help(ev, h), err |-> "nil"], 0)

\* ev.Set(s)
EnumSetCall ==
    /\ elast.err # "panic"
    /\ \E s \in EnumTexts : \E r \in {EnumSet(ev, s)} :
          /\ ev' = r.v
          /\ eok' = IF r.err = "nil" THEN s ELSE eok
          /\ elast' = [op |-> "Set", arg |-> s, err |-> r.err, out |-> <<>>, idx |-> 0]
    /\ UNCHANGED <<eargs, flagVars, parseVars, timeVars>>

EnumNext ==
    \/ EnumNewCall \/ EnumSetCall \/ EnumKeyCall \/ EnumGetCall
    \/ EnumIndexCall \/ EnumStringCall \/ EnumHelpCall

SpecEnum == EnumInit /\ [][EnumNext]_vars

(***************************************************************************)
(* A time.Value: a Layout and a default Time, then Set, Get, String and    *)
(* Help in any order.                                                      *)
(***************************************************************************)
\* the layouts: the empty one (time.Kitchen), the one of the package's test
\* and the one of its documentation
Layouts ==
    { <<>>,
      <<"2", "0", "0", "6", "-", "0", "1", "-", "0", "2", " ", "1", "5", ":", "0", "4">>,
      <<"2", "0", "0", "6", "/", "0", "1", "/", "0", "2">> }

\* the Time a Value starts with: the zero Time (var ktime Value) or a time
\* the caller took from the clock
StartTimes == { ZeroTime, [y |-> 2024, mo |-> 2, d |-> 29, h |-> 13, mi |-> 5] }

\* the texts handed to Set: those of the test, other times, and texts that
\* fail under every layout
TimeTexts ==
    { <<"4", ":", "2", "5", "A", "M">>,
      <<"1", "2", ":", "0", "5", "P", "M">>,
      <<"1", "3", ":", "0", "5", "P", "M">>,
      <<"4", ":", "2", "5", "A", "M", " ">>,
      <<"2", "0", "1", "0", "-", "1", "0", "-", "0", "4", " ", "1", "1", ":", "2", "2">>,
      <<"2", "0", "1", "0", "-", "1", "0", "-", "0", "4", " ", " ", "2", "3", ":", "5", "9">>,
      <<"2", "0", "1", "0", "-", "1", "3", "-", "0", "4", " ", "1", "1", ":", "2", "2">>,
      <<"2", "0", "1", "1", "/", "0", "2", "/", "2", "8">>,
      <<"2", "0", "1", "1", "/", "0", "2", "/", "2", "9">>,
      <<"b", "o", "g", "u", "s">>,
      <<>> }

TimeInit ==
    /\ SizeIdle /\ EnumIdle
    /\ tv \in [Layout : Layouts, Time : StartTimes]
    /\ tlast = NoTimeCall
    /\ tok = tv.Time

\* tv.Set(s)
TimeSetCall ==
    \E s \in TimeTexts : \E r \in {TimeSet(tv, s)} :
        /\ tv' = r.v
        /\ tok' = IF r.err = "nil" THEN timeParse(s, tv.Layout).t ELSE tok
        /\ tlast' = [op |-> "Set", arg |-> s, err |-> r.err, out |-> <<>>, t |-> ZeroTime]
        /\ UNCHANGED <<flagVars, parseVars, enumVars>>

\* tv.Get()
TimeGetCall ==
    /\ tlast' = [op |-> "Get", arg |-> <<>>, err |-> "nil", out |-> <<>>, t |-> TimeGet(tv)]
    /\ UNCHANGED <<tv, tok, flagVars, parseVars, enumVars>>

\* tv.String()
TimeStringCall ==
    /\ tlast' = [op |-> "String", arg |-> <<>>, err |-> "nil",
                 out |-> TimeString(tv), t |-> ZeroTime]
    /\ UNCHANGED <<tv, tok, flagVars, parseVars, enumVars>>

\* tv.Help(h)
TimeHelpCall ==
    /\ \E h \in HelpTexts :
          tlast' = [op |-> "Help", arg |-> h, err |-> "nil",
                    out |-> TimeHelp(tv, h), t |-> ZeroTime]
    /\ UNCHANGED <<tv, tok, flagVars, parseVars, enumVars>>

TimeNext == TimeSetCall \/ TimeGetCall \/ TimeStringCall \/ TimeHelpCall

SpecTime == TimeInit /\ [][TimeNext]_vars

(***************************************************************************)
(* What the documentation says of an input, read off its pieces.           *)
(***************************************************************************)
Done == ps.pc = "ret"

Accepted == Done /\ ps.err = "nil"

AllDigits(s) == DigitRun(s, 1) = Len(s)

\* num is digits ['.' digits]
IsNumber(num) ==
    LET ip == DigitRun(num, 1)
    IN  /\ ip > 0
        /\ \/ ip = Len(num)
           \/ /\ ip + 1 < Len(num)
              /\ num[ip + 1] = "."
              /\ DigitRun(num, ip + 2) = Len(num) - ip - 1

\* the pieces of i are terms of the documented grammar (package doc, lines
\* 6-10) and its last piece a digit string
WellFormed(i) ==
    /\ \A k \in 1..Len(i.terms) :
          IsNumber(i.terms[k].num) /\ ToLower(i.terms[k].unit) \in UnitLetters
    /\ AllDigits(i.tail)

Rank(u) ==
    CASE u = "k" -> 1 [] u = "m" -> 2 [] u = "g" -> 3
      [] u = "t" -> 4 [] u = "p" -> 5 [] u = "e" -> 6

Scale(name) == IF name = "units2" THEN 1024 ELSE 1000

\* scale^rank(unit) (package doc, lines 15-22)
Multiplier(u, name) == BMulPow(<<1>>, Scale(name), Rank(ToLower(u)))

NumDigits(num) ==
    SubSeq(num, 1, DigitRun(num, 1)) \o SubSeq(num, DigitRun(num, 1) + 2, Len(num))

NumFracLen(num) == IF AllDigits(num) THEN 0 ELSE Len(num) - DigitRun(num, 1) - 1

\* floor(number * multiplier) in exact arithmetic
ExactTerm(term, name) ==
    BDivPow(BMul(DigitsValue(NumDigits(term.num)), Multiplier(term.unit, name)),
            10, NumFracLen(term.num)).q

\* the float64 nearest to number, times the multiplier in float64, truncated
FloatTerm(term, name) ==
    FloatTrunc(RoundToFloat(
        BMul(NearestFloat(DigitsValue(NumDigits(term.num)), NumFracLen(term.num)).m,
             Multiplier(term.unit, name)),
        NearestFloat(DigitsValue(NumDigits(term.num)), NumFracLen(term.num)).e))

RECURSIVE SumExact(_, _)
SumExact(terms, name) ==
    IF terms = <<>> THEN <<>>
    ELSE Add64(ExactTerm(terms[1], name), SumExact(Tail(terms), name))

RECURSIVE SumFloat(_, _)
SumFloat(terms, name) ==
    IF terms = <<>> THEN <<>>
    ELSE Add64(FloatTerm(terms[1], name), SumFloat(Tail(terms), name))

\* the result of a call of parse on another text with the same table
Result(i) == parse(Text(i), TableOf(tbl))

NoPad(i) == [i EXCEPT !.lead = <<>>, !.gap = <<>>, !.trail = <<>>]

IsInput(i, txt) == Text(i) = txt /\ i.lead = <<>> /\ i.gap = <<>>

(***************************************************************************)
(* C2: parsing never produces a negative quantity: whenever parse returns  *)
(* without error, the integer it returns is >= 0.                          *)
(***************************************************************************)
C2_NeverNegative == Accepted => ~IsNeg64(ps.ret)

C4_UnitSemantics ==
    (/\ Done
     /\ Len(in.terms) = 1 /\ in.terms[1].num = <<"1">>
     /\ ToLower(in.terms[1].unit) \in UnitLetters
     /\ Text(in) = <<"1", in.terms[1].unit>>)
        => ps.err = "nil" /\ ps.ret = Multiplier(in.terms[1].unit, tbl)

(***************************************************************************)
(* C5: for an accepted input made of terms and an optional trailing digit  *)
(* string, every permutation of the terms is accepted with the same total, *)
(* splitting a whole-numbered term n<unit> into 1<unit> and (n-1)<unit>    *)
(* changes nothing, and the total of two term sequences written one after  *)
(* the other is the sum of their totals.                                   *)
(***************************************************************************)
Perms(n) == {f \in [1..n -> 1..n] : \A a, b \in 1..n : f[a] = f[b] => a = b}

Permuted(i, f) == [i EXCEPT !.terms = [k \in 1..Len(i.terms) |-> i.terms[f[k]]]]

\* term k of i written as two terms of the same unit
SplitAt(i, k) ==
    LET n == DigitsValue(i.terms[k].num)
        u == i.terms[k].unit
    IN  [i EXCEPT !.terms =
            SubSeq(i.terms, 1, k - 1)
            \o <<[num |-> <<"1">>, unit |-> u],
                 [num |-> FormatInt(BSub(n, <<1>>)), unit |-> u]>>
            \o SubSeq(i.terms, k + 1, Len(i.terms))]

FirstTerms(i, k) == [i EXCEPT !.terms = SubSeq(i.terms, 1, k), !.tail = <<>>]

LastTerms(i, k) == [i EXCEPT !.terms = SubSeq(i.terms, k + 1, Len(i.terms))]

C5_Additive ==
    (Accepted /\ WellFormed(in)) =>
        /\ \A f \in Perms(Len(in.terms)) :
              Result(Permuted(in, f)) = [size |-> ps.ret, err |-> "nil"]
        /\ \A k \in 1..Len(in.terms) :
              (AllDigits(in.terms[k].num) /\ DigitsValue(in.terms[k].num) # <<>>)
                  => Result(SplitAt(in, k)) = [size |-> ps.ret, err |-> "nil"]
        /\ \A k \in 1..(Len(in.terms) - 1) :
              /\ Result(FirstTerms(in, k)).err = "nil"
              /\ Result(LastTerms(in, k)).err = "nil"
              /\ ps.ret = Add64(Result(FirstTerms(in, k)).size,
                                Result(LastTerms(in, k)).size)

\* an accepted input of two different terms and a trailing digit string
C5_Witness ==
    /\ Accepted /\ WellFormed(in) /\ Len(in.terms) = 2 /\ in.tail # <<>>
    /\ in.terms[1] # in.terms[2]
    /\ FloatTerm(in.terms[1], tbl) # FloatTerm(in.terms[2], tbl)
    /\ AllDigits(in.terms[1].num) /\ DigitsValue(in.terms[1].num) = <<2>>

(***************************************************************************)
(* C6: whitespace put before the first term, between terms, between the    *)
(* last term and the trailing digit string or after the end of an accepted *)
(* input changes neither acceptance nor the value; an input of whitespace  *)
(* alone is rejected.                                                      *)
(***************************************************************************)
C6_Whitespace ==
    /\ (Done /\ WellFormed(in) /\ Result(NoPad(in)).err = "nil")
          => [size |-> ps.ret, err |-> ps.err] = Result(NoPad(in))
    /\ (Done /\ in.terms = <<>> /\ in.tail = <<>>) => ps.err = "invalid size"

\* an accepted input with whitespace of all four kinds in all four places
C6_Witness ==
    /\ Accepted /\ WellFormed(in) /\ Len(in.terms) = 2 /\ in.tail # <<>>
    /\ in.lead = Blank /\ in.gap = Blank /\ in.trail # <<>>
    /\ ps.ret # <<>>

(***************************************************************************)
(* C7: parse returns without error only when the text left after the       *)
(* leading terms, with the whitespace around it removed, is empty (and a   *)
(* term was consumed) or consists of decimal digits only; in particular    *)
(* the inputs of TestParseErrors and every input that starts with a minus  *)
(* sign are rejected.                                                      *)
(***************************************************************************)
C7_AcceptanceSet ==
    /\ Accepted => \/ ps.s = <<>> /\ ps.terms >= 1
                   \/ ps.s # <<>> /\ AllDigits(ps.s)
    /\ (Done /\ in \in TestErrorInputs) => ps.err # "nil"
    /\ (Done /\ Text(in) # <<>> /\ Text(in)[1] = "-") => ps.err # "nil"

(***************************************************************************)
(* C1: round trip.  For every quantity q >= 0 and both tables, Set on the  *)
(* string String returned for q returns no error and leaves the value q.   *)
(***************************************************************************)
C1_RoundTrip ==
    last.op = "Set" => last.err = "nil" /\ heap[1].v = lastOk[1].init

(***************************************************************************)
(* C8 as stated: with the binary table the quantity 1 * P + 1024 * T is    *)
(* rendered as the single term "1025T".                                    *)
(***************************************************************************)
C8_OnePPlus1024T ==
    (/\ last.op = "String" /\ flags[1].kind = "Value2"
     /\ heap[1].v = BAdd(pi, BMulSmall(ti, 1024)))
        => last.out = <<"1", "0", "2", "5", "T">>

(***************************************************************************)
(* C8 amended: with the binary table the quantity 1 * P + 1 * T is         *)
(* rendered as the single term "1025T" (the P term is lowered by one place *)
(* and combined with the T term); 1 * P + 1024 * T is 2 * P and is         *)
(* rendered "2P".                                                          *)
(***************************************************************************)
C8_OnePPlusOneT ==
    /\ (/\ last.op = "String" /\ flags[1].kind = "Value2"
        /\ heap[1].v = BAdd(pi, ti))
           => last.out = <<"1", "0", "2", "5", "T">>
    /\ (/\ last.op = "String" /\ flags[1].kind = "Value2"
        /\ heap[1].v = BAdd(pi, BMulSmall(ti, 1024)))
           => last.out = <<"2", "P">>

\* String has rendered 2^50 + 2^40 with the binary table
C8_Witness ==
    /\ last.op = "String" /\ flags[1].kind = "Value2"
    /\ heap[1].v = BAdd(pi, ti)
    /\ last.out = <<"1", "0", "2", "5", "T">>

(***************************************************************************)
(* C9: after any sequence of Set calls the value of a cell is what parse   *)
(* returns for the text of the most recent Set on it that returned nil,    *)
(* with the table of the flag that Set went through, or the initial value  *)
(* if no Set has returned nil; so a Set that returns an error leaves the   *)
(* value as it was, also when parse had added a term before it failed.     *)
(***************************************************************************)
C9_SetStoresOnSuccess ==
    \A c \in 1..Len(heap) :
        heap[c].v = IF lastOk[c].set.kind = "none" THEN lastOk[c].init
                    ELSE parse(lastOk[c].set.text, UnitsOf(lastOk[c].set.kind)).size

\* a Set has failed after parse had added 1k to its total, on a flag whose
\* value came from an earlier Set
C9_Witness ==
    /\ last.op = "Set" /\ last.err = "invalid unit"
    /\ last.arg = <<"1", "k", "1", "b">>
    /\ lastOk[flags[last.flag].cell].set.text = <<"3", "1", ".", "5", "k">>
    /\ lastOk[flags[last.flag].cell].set.kind = "Value2"
    /\ heap[flags[last.flag].cell].v = <<32256>>
    /\ lastOk[flags[last.flag].cell].init = <<11>>

(***************************************************************************)
(* C10: Base2(p) and Base10(p) with p a pointer to an int of the caller    *)
(* return a flag whose cell is that int, unchanged by the call, and a Set  *)
(* through a flag that returns nil leaves parse(s) in the flag's cell;     *)
(* Base2(n), Base10(n) with an int n, or with nil, return a flag on a cell *)
(* that did not exist before, holding n (0 for nil), which no other flag   *)
(* points at, and leave every other cell as it was; a Set through any flag *)
(* changes no cell but the flag's own, so a Set through a flag on a fresh  *)
(* cell changes no variable of the caller and no other flag's value.       *)
(***************************************************************************)
C10_CellOwnership ==
    [][/\ (last'.op \in {"Base2", "Base10"} /\ last'.err = "nil"
              /\ last'.init.t = "*int")
          => /\ flags'[last'.flag].cell = last'.init.c
             /\ heap[last'.init.c].own = "caller"
             /\ heap' = heap
       /\ (last'.op \in {"Base2", "Base10"} /\ last'.err = "nil"
              /\ last'.init.t \in {"int", "nil"})
          => /\ flags'[last'.flag].cell \notin DOMAIN heap
             /\ heap'[flags'[last'.flag].cell] =
                   [v |-> IF last'.init.t = "int" THEN last'.init.n ELSE <<>>,
                    own |-> "flag"]
             /\ \A d \in DOMAIN heap : heap'[d] = heap[d]
             /\ \A g \in 1..Len(flags) : flags[g].cell # flags'[last'.flag].cell
       /\ last'.op = "Set"
          => /\ last'.err = "nil"
                => heap'[flags[last'.flag].cell].v =
                      parse(last'.arg, UnitsOf(flags[last'.flag].kind)).size
             /\ \A d \in DOMAIN heap \ {flags[last'.flag].cell} : heap'[d] = heap[d]
             /\ heap[flags[last'.flag].cell].own = "flag"
                => /\ \A d \in DOMAIN heap :
                         heap[d].own = "caller" => heap'[d] = heap[d]
                   /\ \A g \in 1..Len(flags) :
                         flags[g] # flags[last'.flag]
                            => heap'[flags[g].cell] = heap[flags[g].cell]
      ]_vars

\* a flag on the caller's variable and a flag on a fresh cell; the first was
\* set to 0.25k (decimal), then the second to 31.5k (binary)
C10_Witness ==
    /\ Len(flags) = 2
    /\ heap[flags[1].cell].own = "caller" /\ flags[1].kind = "Value10"
    /\ heap[flags[2].cell].own = "flag" /\ flags[2].kind = "Value2"
    /\ last.op = "Set" /\ last.flag = 2 /\ last.err = "nil"
    /\ lastOk[flags[2].cell].init = <<11>>
    /\ heap[flags[2].cell].v = <<32256>>
    /\ heap[flags[1].cell].v = <<250>>

KindOf(op) == IF op = "Base2" THEN "Value2" ELSE "Value10"

Given == {eargs[i] : i \in 1..Len(eargs)}

\* s with its capital letters made small
Lowered(s) == [i \in 1..Len(s) |-> FoldChar(s[i])]

(***************************************************************************)
(* C12: for v = New(d, o1, ..., on), Index() reports the position of the   *)
(* selected key in the order the keys were given to the constructor: d has *)
(* index 0 and oi has index i; after New("auto", "on", "off") and a Set of *)
(* "off" that returned nil, Index() is 2.                                  *)
(***************************************************************************)
C12_ConstructorOrder ==
    /\ elast.op = "New" => Index(ev) = 0
    /\ (elast.op = "Index" /\ eargs # <<>>)
          => /\ elast.idx + 1 \in 1..Len(eargs)
             /\ eargs[elast.idx + 1] = Key(ev).out
    /\ (/\ elast.op = "Index"
        /\ eargs = << <<"a", "u", "t", "o">>, <<"o", "n">>, <<"o", "f", "f">> >>
        /\ eok = <<"o", "f", "f">>)
          => elast.idx = 2

(***************************************************************************)
(* C13: for a Value built by New, Set(s) returns nil if and only if s      *)
(* equals one of the constructor's keys when compared without regard to    *)
(* case; after a Set(s) that returned nil, Key() and Get() return a key of *)
(* the constructor that equals s without regard to case, in the spelling   *)
(* given to the constructor; a Set that returns an error leaves the        *)
(* selected index and key as they were.                                    *)
(***************************************************************************)
C13_SetFoldsCase ==
    /\ [](eargs # <<>> =>
            /\ elast.op = "Set"
                  => /\ elast.err = "nil"
                          <=> \E k \in Given : Lowered(k) = Lowered(elast.arg)
                     /\ elast.err = "nil"
                          => /\ Key(ev).out \in Given
                             /\ Lowered(Key(ev).out) = Lowered(elast.arg)
            /\ (elast.op \in {"Key", "Get"} /\ eok # <<>>)
                  => /\ elast.err = "nil"
                     /\ elast.out \in Given
                     /\ Lowered(elast.out) = Lowered(eok))
    /\ [][(elast'.op = "Set" /\ elast'.err # "nil")
              => Index(ev') = Index(ev) /\ Key(ev') = Key(ev) /\ ev' = ev]_vars

\* Set was given a key in another spelling, returned nil, and Key returned
\* the constructor's spelling
C13_Witness ==
    /\ elast.op = "Key" /\ eok = <<"O", "F", "F">>
    /\ elast.out = <<"o", "f", "f">>
    /\ <<"O", "n">> \in Given /\ <<"o", "n">> \in Given

(***************************************************************************)
(* C14: for v = New(d, o1..on), Key() is d right after construction; after *)
(* any sequence of Set, Key, Index, String, Help and Get calls the index   *)
(* satisfies 0 <= Index() < number of keys and Key() is one of d, o1..on;  *)
(* the selection changes only in a Set call that returns nil; and Key()    *)
(* never panics: on a zero Value it returns the empty string.              *)
(***************************************************************************)
C14_Selection ==
    /\ [](/\ elast.op = "New" => Key(ev) = [out |-> eargs[1], err |-> "nil"]
          /\ eargs # <<>>
                => /\ Len(ev.keys) = Len(eargs)
                   /\ 0 <= Index(ev) /\ Index(ev) < Len(ev.keys)
                   /\ Key(ev).err = "nil" /\ Key(ev).out \in Given
                   /\ elast.op = "Index" => elast.idx \in 0..(Len(eargs) - 1)
                   /\ elast.op \in {"Key", "Get"} => elast.out \in Given
          /\ elast.err # "panic"
          /\ eargs = <<>> => Key(ev) = [out |-> <<>>, err |-> "nil"]
          /\ (eargs = <<>> /\ elast.op = "Key") => elast.out = <<>>)
    /\ [][(Index(ev') # Index(ev) \/ Key(ev') # Key(ev))
              => \/ elast'.op = "New"
                 \/ elast'.op = "Set" /\ elast'.err = "nil"]_vars

\* a Value with three keys whose default is the last of the sorted keys;
\* no Set has returned nil, and Key has returned the default
C14_Witness ==
    /\ Len(eargs) = 3 /\ eargs[1] = <<"o", "n">> /\ Index(ev) = 2
    /\ elast.op = "Key" /\ elast.out = <<"o", "n">>
    /\ eok = <<>>

(***************************************************************************)
(* C19: for a time.Value with any Layout, a Set(s) whose text does not     *)
(* parse under the layout returns an error and leaves the stored Time as   *)
(* it was, so that after any sequence of Set calls Time / Get() is the     *)
(* result of the last Set that returned nil, or the initial default.       *)
(***************************************************************************)
C19_ErrorKeepsTime ==
    /\ [](/\ tv.Time = tok
          /\ tlast.op = "Get" => tlast.t = tok)
    /\ [][(tlast'.op = "Set" /\ tlast'.err # "nil") => tv'.Time = tv.Time]_vars

(***************************************************************************)
(* C15: the rendering of q > 0 by its digits.  With s the scale of the     *)
(* table, d_r the digit of q at rank r in base s (ranks 0..6, the top rank *)
(* unbounded) and labels "", K, M, G, T, P, E: String returns one term     *)
(* "<d_r><label_r>" per rank with d_r > 0, highest rank first, joined by   *)
(* single spaces, except that when j is the lowest rank with d_j > 0 and   *)
(* d_(j+1) > 0 as well, ranks j + 1 and j are written as the one final     *)
(* term "<d_(j+1) * s + d_j><label_j>".                                    *)
(***************************************************************************)
\* d_r: (q mod s^(r+1)) div s^r below the top rank, q div s^6 at the top
RankDigit(q, s, r) ==
    IF r = 6 THEN Limb(BDivPow(q, s, 6).q, 1)
    ELSE BDivSmall(BDivPow(q, s, r).q, s).r

RankLabel(r) ==
    <<<<>>, <<"K">>, <<"M">>, <<"G">>, <<"T">>, <<"P">>, <<"E">>>>[r + 1]

\* the members of a set of numbers, largest first
Descending(S) ==
    [k \in 1..Cardinality(S) |->
        CHOOSE x \in S : Cardinality({y \in S : y > x}) = k - 1]

\* the coefficient written at rank r when the lowest rank in use is j
RankCoefficient(q, s, r, j) ==
    IF r = j /\ j < 6 /\ RankDigit(q, s, j + 1) > 0
    THEN RankDigit(q, s, j + 1) * s + RankDigit(q, s, j)
    ELSE RankDigit(q, s, r)

\* the ranks written for q, highest first, the lowest rank in use being j
RanksWritten(q, s, j) ==
    Descending({r \in 0..6 : RankDigit(q, s, r) > 0 /\ r # j + 1})

DigitRendering(q, s, j) ==
    Join([k \in 1..Len(RanksWritten(q, s, j)) |->
            FormatInt(BFromInt(RankCoefficient(q, s, RanksWritten(q, s, j)[k], j)))
                \o RankLabel(RanksWritten(q, s, j)[k])])

LowestRank(q, s) == CHOOSE j \in 0..6 :
    /\ RankDigit(q, s, j) > 0
    /\ \A r \in 0..(j - 1) : RankDigit(q, s, r) = 0

ScaleOf(kind) == IF kind = "Value2" THEN 1024 ELSE 1000

C15_DigitRendering ==
    (last.op = "String" /\ heap[1].v # <<>>)
        => last.out = DigitRendering(heap[1].v, ScaleOf(flags[1].kind),
                                     LowestRank(heap[1].v, ScaleOf(flags[1].kind)))

\* String has rendered 2^30 + 2^20 with the binary table as "1025M", and
\* 2^30 + 2^10 is rendered without combining
C15_Witness ==
    /\ last.op = "String" /\ flags[1].kind = "Value2"
    /\ \/ heap[1].v = BAdd(gi, mi) /\ last.out = <<"1", "0", "2", "5", "M">>
       \/ heap[1].v = BAdd(gi, ki) /\ last.out = <<"1", "G", " ", "1", "K">>

(***************************************************************************)
(* C16: what String returns for q >= 0 with either table is not empty and  *)
(* is "0" for q = 0; read as terms separated by single spaces, every term  *)
(* is a decimal coefficient followed by at most one label, the labels are  *)
(* in strictly descending rank (so they are distinct and the term without  *)
(* a label, if any, is the last), every coefficient is > 0 unless q = 0,   *)
(* and the sum of coefficient * scale^rank(label) is exactly q.            *)
(***************************************************************************)
\* the members of a set of numbers, smallest first
Ascending(S) ==
    [k \in 1..Cardinality(S) |->
        CHOOSE x \in S : Cardinality({y \in S : y < x}) = k - 1]

\* the positions at which out is cut: before it, at each space, after it
Cuts(out) == Ascending({0, Len(out) + 1} \cup {i \in 1..Len(out) : out[i] = " "})

\* the parts of out between single spaces
Pieces(out) ==
    [k \in 1..(Len(Cuts(out)) - 1) |->
        SubSeq(out, Cuts(out)[k] + 1, Cuts(out)[k + 1] - 1)]

CoefficientOf(piece) == DigitsValue(SubSeq(piece, 1, DigitRun(piece, 1)))

LabelOf(piece) == SubSeq(piece, DigitRun(piece, 1) + 1, Len(piece))

IsLabel(u) == \E r \in 0..6 : RankLabel(r) = u

LabelRank(u) == CHOOSE r \in 0..6 : RankLabel(r) = u

RECURSIVE SumPieces(_, _)
SumPieces(pieces, s) ==
    IF pieces = <<>> THEN <<>>
    ELSE BAdd(BMul(CoefficientOf(pieces[1]),
                   BMulPow(<<1>>, s, LabelRank(LabelOf(pieces[1])))),
              SumPieces(Tail(pieces), s))

WellFormedTerms(q, s, pieces) ==
    /\ \A k \in 1..Len(pieces) :
          /\ DigitRun(pieces[k], 1) >= 1
          /\ IsLabel(LabelOf(pieces[k]))
          /\ q # <<>> => CoefficientOf(pieces[k]) # <<>>
    /\ \A k \in 1..(Len(pieces) - 1) :
          LabelRank(LabelOf(pieces[k])) > LabelRank(LabelOf(pieces[k + 1]))

C16_OutputInvariants ==
    last.op = "String" =>
        /\ last.out # <<>>
        /\ heap[1].v = <<>> => last.out = <<"0">>
        /\ WellFormedTerms(heap[1].v, ScaleOf(flags[1].kind), Pieces(last.out))
        /\ SumPieces(Pieces(last.out), ScaleOf(flags[1].kind)) = heap[1].v

\* String has rendered a quantity with three ranks in use as three terms
C16_Witness ==
    /\ last.op = "String"
    /\ heap[1].v # <<>>
    /\ Len(Pieces(last.out)) = 3
    /\ LabelOf(Pieces(last.out)[3]) = <<>>

(***************************************************************************)
(* C17: the unit tables agree.  For each base the parser's table has       *)
(* exactly the letters k, m, g, t, p, e, its multipliers grow by the       *)
(* factor scale from each rank to the next, entry i of the formatter's     *)
(* divisor list is the parser's multiplier of the lower-cased label        *)
(* i + 1, the first label is the empty sentinel, and every label String    *)
(* writes is a unit letter that sizeRE accepts after a number.             *)
(***************************************************************************)
RankLetters == <<"k", "m", "g", "t", "p", "e">>

MultOf(name) == IF name = "units2" THEN mult2 ELSE mult10

TablesConsistent ==
    /\ labels[1] = <<>>
    /\ \A name \in Tables :
          /\ DOMAIN TableOf(name) = {RankLetters[r] : r \in 1..6}
          /\ \A r \in 1..5 :
                /\ BCmp(TableOf(name)[RankLetters[r]],
                        TableOf(name)[RankLetters[r + 1]]) < 0
                /\ TableOf(name)[RankLetters[r + 1]]
                      = BMulSmall(TableOf(name)[RankLetters[r]], Scale(name))
          /\ Len(MultOf(name)) = 6
          /\ \A i \in 1..6 :
                /\ Len(labels[i + 1]) = 1
                /\ ToLower(labels[i + 1][1]) \in DOMAIN TableOf(name)
                /\ MultOf(name)[i] = TableOf(name)[ToLower(labels[i + 1][1])]

EmittedLabelsAccepted ==
    last.op = "String" =>
        \A k \in 1..Len(Pieces(last.out)) :
            LabelOf(Pieces(last.out)[k]) # <<>>
                => sizeRE(<<"1">> \o LabelOf(Pieces(last.out)[k])) # <<>>

C17_TablesAgree == TablesConsistent /\ EmittedLabelsAccepted

(***************************************************************************)
(* C18 as stated: when the first term of the input whose letter is not in  *)
(* the active table follows only terms of the table, parse returns the     *)
(* error "invalid unit" together with the total of the terms before it;    *)
(* every other failure is "invalid size" with 0.                           *)
(***************************************************************************)
\* the terms before term k are numbers with letters of the set known
LeadingTerms(i, k, known) ==
    /\ k \in 1..Len(i.terms)
    /\ IsNumber(i.terms[k].num)
    /\ \A j \in 1..(k - 1) :
          IsNumber(i.terms[j].num) /\ ToLower(i.terms[j].unit) \in known

\* term k is the first whose letter is not in the active table
UnknownLetter(i, k) ==
    /\ LeadingTerms(i, k, UnitLetters)
    /\ ToLower(i.terms[k].unit) \notin DOMAIN TableOf(tbl)

PartialTotal(i, k) == SumFloat(SubSeq(i.terms, 1, k - 1), tbl)

MatchedLetters == UnitClass \cap DOMAIN TableOf(tbl)

\* term k is reached by the loop and its letter is matched but in no table
MatchedUnknown(i, k) ==
    /\ LeadingTerms(i, k, MatchedLetters)
    /\ ToLower(i.terms[k].unit) \in UnitClass \ DOMAIN TableOf(tbl)

\* term k is reached by the loop and its letter is not matched
Unmatched(i, k) ==
    /\ LeadingTerms(i, k, MatchedLetters)
    /\ ToLower(i.terms[k].unit) \notin UnitClass

PrefixRemoved(text, rest) ==
    \E n \in 2..Len(text) :
        /\ rest = SubSeq(text, n + 1, Len(text))
        /\ IsDigit(text[1])
        /\ ~IsDigit(text[n]) /\ text[n] # "."

\* a step of the term loop either consumes a term or is the last
ConsumeOrLeave ==
    (ps.pc = "loop" /\ ps'.iters = ps.iters + 1) =>
        \/ /\ ps'.pc = "loop" /\ ps'.terms = ps.terms + 1
           /\ PrefixRemoved(TrimSpace(ps.s), ps'.s)
        \/ /\ ps'.pc # "loop" /\ ps'.terms = ps.terms

C20_IterationsHalfLength ==
    /\ [][ConsumeOrLeave]_vars
    /\ [](2 * ps.iters <= Len(Text(in)))
    /\ <>Done

(***************************************************************************)
(* C20 amended: the same, the bound being on the iterations that match a   *)
(* term: at most half the length of the input of them, and one more        *)
(* iteration, the one that leaves the loop.                                *)
(***************************************************************************)
C20_TermsHalfLength ==
    /\ [][ConsumeOrLeave]_vars
    /\ [](2 * ps.terms <= Len(Text(in)) /\ ps.iters <= ps.terms + 1)
    /\ <>Done

\* parse has returned after two terms that make up the whole input
C20_Witness ==
    /\ Done /\ ps.terms = 2 /\ ps.iters = 3
    /\ Len(Text(in)) = 4

====
